---- MODULE Spec2Model ----
(***************************************************************************)
(* A model of tomes.js: observable trees ("Tomes") that mirror a JSON-like *)
(* value, record every mutation as a diff chained up to the root, buffer   *)
(* their events while paused, and replay diffs on another tree.            *)
(*                                                                         *)
(* A tree is an arena of nodes (T.nodes, a node's id is its index), the    *)
(* events delivered to listeners during the current call (T.log), the JS   *)
(* arrays that diff records share by reference (T.heap) and the exception  *)
(* the current call has thrown, if any (T.err).  Every method of the       *)
(* source is an operator from a tree to a tree, translated statement by    *)
(* statement; once T.err is set the remaining statements are skipped, as   *)
(* an exception skips them.                                                *)
(***************************************************************************)
EXTENDS Integers, Sequences, FiniteSets, TLC

VARIABLES A, B, queue, last, steps, limit

vars == <<A, B, queue, last, steps, limit>>

(***************************************************************************)
(* Plain JavaScript values.  Each type has its own field name, so that two *)
(* values of different types are unequal rather than incomparable.         *)
(***************************************************************************)
Num(n) == [t |-> "number", n |-> n]
Str(s) == [t |-> "string", s |-> s]
Bool(b) == [t |-> "boolean", b |-> b]
Null == [t |-> "null"]
Undef == [t |-> "undefined"]
\* an index of an array literal that is not an own property: [1, , 3]
Hole == [t |-> "hole"]
\* a value of a type no Tome exists for
Fun == [t |-> "function"]
Arr(a) == [t |-> "array", a |-> a]
\* o: the own enumerable properties, in enumeration order
Obj(o) == [t |-> "object", o |-> o]
KV(k, v) == [k |-> k, v |-> v]
\* a JS array that diff records hold by reference: cell r of the heap
Ref(r) == [t |-> "ref", r |-> r]

\* the largest array the model builds; array operations that would pass it
\* are not taken
MaxLen == 4

IndexKeys == {ToString(i) : i \in 0..(MaxLen + 1)}
NameKeys == {"a", "b", "c"}
KeyUniverse == IndexKeys \cup NameKeys

\* the property name of an array index
IndexKey(i) == ToString(i)
IsIndexKey(k) == k \in IndexKeys
\* parseInt(k, 10) of a canonical index string
IndexOf(k) == CHOOSE i \in 0..(MaxLen + 1) : ToString(i) = k

typeOf(v) ==
  CASE v.t = "ref" -> "array"
    [] v.t = "hole" -> "undefined"
    [] OTHER -> v.t

tomeMap == {"array", "boolean", "null", "number", "object", "string", "undefined"}

\* the elements of a JS array value, its heap cell when it is a reference
Elems(heap, v) == IF v.t = "ref" THEN heap[v.r] ELSE v.a

RECURSIVE Deref(_, _)
\* the value a listener sees when it reads v: references followed
Deref(heap, v) ==
  CASE v.t = "ref" -> Arr([i \in 1..Len(heap[v.r]) |-> Deref(heap, heap[v.r][i])])
    [] v.t = "array" -> Arr([i \in 1..Len(v.a) |-> Deref(heap, v.a[i])])
    [] v.t = "object" -> Obj([i \in 1..Len(v.o) |-> KV(v.o[i].k, Deref(heap, v.o[i].v))])
    [] OTHER -> v

(***************************************************************************)
(* Own properties of a JS object in enumeration order: index keys first in *)
(* ascending order, then the other keys in insertion order.                *)
(***************************************************************************)
HasKey(o, k) == \E i \in 1..Len(o) : o[i].k = k
PosOf(o, k) == CHOOSE i \in 1..Len(o) : o[i].k = k
Lookup(o, k) == o[PosOf(o, k)].v
KeysOf(o) == [i \in 1..Len(o) |-> o[i].k]
Remove(o, k) ==
  IF HasKey(o, k)
  THEN LET p == PosOf(o, k) IN SubSeq(o, 1, p - 1) \o SubSeq(o, p + 1, Len(o))
  ELSE o
\* the number of properties enumerated before a new key k
Before(o, k) ==
  IF IsIndexKey(k)
  THEN Cardinality({i \in 1..Len(o) : IsIndexKey(o[i].k) /\ IndexOf(o[i].k) < IndexOf(k)})
  ELSE Len(o)
Put(o, k, v) ==
  IF HasKey(o, k)
  THEN [o EXCEPT ![PosOf(o, k)] = KV(k, v)]
  ELSE LET b == Before(o, k) IN SubSeq(o, 1, b) \o <<KV(k, v)>> \o SubSeq(o, b + 1, Len(o))

(***************************************************************************)
(* Nodes.  props holds the own enumerable properties of the Tome, key to   *)
(* node id, 0 for a property whose value is undefined.                     *)
(***************************************************************************)
NoBuffer == [on |-> FALSE, q |-> <<>>]

Tome(type, parent, key, root) ==
  [type |-> type, val |-> Undef, arr |-> <<>>, length |-> 0, props |-> <<>>,
   parent |-> parent, key |-> key, root |-> root, ver |-> 1, diff |-> Undef,
   buffer |-> NoBuffer]

EmptyTree == [nodes |-> <<>>, heap |-> <<>>, log |-> <<>>, err |-> "", ret |-> Undef]

Ok(T) == T.err = ""
throw(T, e) == IF Ok(T) THEN [T EXCEPT !.err = e] ELSE T

hasOwnProperty(T, id, k) == HasKey(T.nodes[id].props, k)
\* this[k]: a node id, 0 when the property is missing or undefined
Get(T, id, k) == IF hasOwnProperty(T, id, k) THEN Lookup(T.nodes[id].props, k) ELSE 0
isContainer(type) == type \in {"array", "object"}

\* single statements on a node, skipped once an exception is pending
\* this[k] = c
own(T, id, k, c) == IF Ok(T) THEN [T EXCEPT !.nodes[id].props = Put(@, k, c)] ELSE T
\* delete this[k]
disown(T, id, k) == IF Ok(T) THEN [T EXCEPT !.nodes[id].props = Remove(@, k)] ELSE T
\* this._arr = arr
setArr(T, id, arr) == IF Ok(T) THEN [T EXCEPT !.nodes[id].arr = arr] ELSE T
\* this.length = len
setLength(T, id, len) == IF Ok(T) THEN [T EXCEPT !.nodes[id].length = len] ELSE T
\* this.length = this._arr.length
syncLength(T, id) == IF Ok(T) THEN [T EXCEPT !.nodes[id].length = Len(T.nodes[id].arr)] ELSE T
\* c.__key__ = k
setKey(T, c, k) == IF Ok(T) THEN [T EXCEPT !.nodes[c].key = k] ELSE T

RECURSIVE valueOf(_, _)
\* the plain value a node represents: valueOf(), followed through the
\* Tomes that an array's or an object's valueOf() hands out
valueOf(T, id) ==
  LET n == T.nodes[id] IN
  CASE n.type \in {"number", "string", "boolean"} -> n.val
    [] n.type = "null" -> Null
    [] n.type = "undefined" -> Undef
    [] n.type = "array" ->
         Arr([i \in 1..Len(n.arr) |->
                IF n.arr[i] = 0 THEN Undef ELSE valueOf(T, n.arr[i])])
    [] OTHER ->
         Obj([i \in 1..Len(n.props) |->
                KV(n.props[i].k,
                   IF n.props[i].v = 0 THEN Undef ELSE valueOf(T, n.props[i].v))])


(***************************************************************************)
(* Events.  T.log holds every event emitted since the current call began,  *)
(* in emission order; a buffered event is an entry of the root's buffer,   *)
(* whose kinds are the buffer object's keys in the order of their creation.*)
(***************************************************************************)
Event(id, ev, key, newKey, arg) ==
  [tome |-> id, ev |-> ev, key |-> key, newKey |-> newKey, arg |-> arg]

emit(T, id, ev, key, newKey, arg) ==
  [T EXCEPT !.log = Append(@, Event(id, ev, key, newKey, arg))]

Buffered(id, key, newKey) == [tome |-> id, key |-> key, newKey |-> newKey]

HasKind(q, kind) == \E i \in 1..Len(q) : q[i].kind = kind

\* buffer[kind] = [ op ] when the buffer has no such list yet, else push
BufferPush(q, kind, op) ==
  IF HasKind(q, kind)
  THEN [i \in 1..Len(q) |->
          IF q[i].kind = kind THEN [q[i] EXCEPT !.ops = Append(@, op)] ELSE q[i]]
  ELSE Append(q, [kind |-> kind, ops |-> <<op>>])

\* this.__root__.__buffer__ is truthy
Paused(T, id) == T.nodes[T.nodes[id].root].buffer.on

Buffer(T, id, kind, op) ==
  [T EXCEPT !.nodes[T.nodes[id].root].buffer.q = BufferPush(@, kind, op)]

\* this[key] === undefined ? undefined : this[key].valueOf()
ValueAt(T, id, key) ==
  IF Get(T, id, key) = 0 THEN Undef ELSE valueOf(T, Get(T, id, key))

emitAdd(T, id, key) ==
  IF ~Ok(T) THEN T
  ELSE IF Paused(T, id) THEN Buffer(T, id, "add", Buffered(id, key, ""))
  ELSE emit(T, id, "add", key, "", ValueAt(T, id, key))

\* emitDel without the test of the buffer: the event is delivered at once
emitDel_unbuffered(T, id, key) ==
  IF ~Ok(T) THEN T ELSE emit(T, id, "del", key, "", Undef)

emitDel(T, id, key) ==
  IF ~Ok(T) THEN T
  ELSE IF Paused(T, id) THEN Buffer(T, id, "del", Buffered(id, key, ""))
  ELSE emit(T, id, "del", key, "", Undef)

emitRename(T, id, oldKey, newKey) ==
  IF ~Ok(T) THEN T
  ELSE IF Paused(T, id) THEN Buffer(T, id, "rename", Buffered(id, oldKey, newKey))
  ELSE emit(T, id, "rename", oldKey, newKey, Undef)

emitDestroy(T, id) ==
  IF ~Ok(T) THEN T
  ELSE IF Paused(T, id) THEN Buffer(T, id, "destroy", Buffered(id, "", ""))
  ELSE emit(T, id, "destroy", "", "", Undef)

(***************************************************************************)
(* Tome.prototype.diff.  chain is the one-entry object handed up the tree. *)
(* An array payload is a JS array shared by the record of the node and the *)
(* chain objects held by its ancestors: it lives in the heap, so that the  *)
(* push that accumulates a repeated operation is seen through all of them. *)
(***************************************************************************)
\* diff[opk] after chain[opk] has been merged into an existing entry e that
\* is not a shared array
Augmented(e, v) ==
  IF typeOf(e) = "array" THEN Arr(Append(e.a, v)) ELSE Arr(<<e, v>>)

\* the for-in loop of diff: merge the chain's entry into the record d
MergeChain(d, chain) ==
  IF HasKey(d, chain.k)
  THEN IF Lookup(d, chain.k).t = "ref"
       THEN d
       ELSE Put(d, chain.k, Augmented(Lookup(d, chain.k), chain.v))
  ELSE Put(d, chain.k, chain.v)

\* the heap after that loop: a shared array entry is pushed to in place
MergeHeap(heap, d, chain) ==
  IF HasKey(d, chain.k) /\ Lookup(d, chain.k).t = "ref"
  THEN [heap EXCEPT ![Lookup(d, chain.k).r] = Append(@, chain.v)]
  ELSE heap

\* '_'.concat(this.__key__)
ChildKey(k) == "_" \o k

\* this.__diff__, {} when there is none
Record(T, id) == IF T.nodes[id].diff = Undef THEN <<>> ELSE T.nodes[id].diff.o

\* the version bump and the merge of the chain into the record
diffMerge(T, id, chain) ==
  [T EXCEPT !.heap = MergeHeap(@, Record(T, id), chain),
            !.nodes[id].ver = @ + 1,
            !.nodes[id].diff =
               IF @ # Undef \/ Paused(T, id) THEN Obj(MergeChain(Record(T, id), chain)) ELSE @]

\* the three events of an unpaused diff; d is the record they carry
diffEmit(T, id, d) ==
  [T EXCEPT !.log = @ \o <<Event(id, "signal", "", "", valueOf(T, id)),
                            Event(id, "change", "", "", valueOf(T, id)),
                            Event(id, "diff", "", "", Deref(T.heap, Obj(d)))>>]

\* the body of diff at one node
diffNode(T, id, chain) ==
  IF Paused(T, id) THEN diffMerge(T, id, chain)
  ELSE diffEmit(diffMerge(T, id, chain), id, MergeChain(Record(T, id), chain))

\* a diff that stays at the node that made it
diffParent_none(T, parent, key, chain) == T

RECURSIVE diffChain(_, _, _)
\* if (this.hasOwnProperty('__parent__')) { this.__parent__.diff(link) }
diffParent(T, parent, key, chain) ==
  IF parent = 0 THEN T
  ELSE diffChain(T, parent, KV(ChildKey(key), Obj(<<chain>>)))

diffChain(T, id, chain) ==
  diffParent(diffNode(T, id, chain), T.nodes[id].parent, T.nodes[id].key, chain)

\* the payload of a diff as the records hold it: an array literal is a new
\* array of the heap
Alloc(T, val) == IF val.t = "array" THEN [T EXCEPT !.heap = Append(@, val.a)] ELSE T
Held(T, val) == IF val.t = "array" THEN Ref(Len(T.heap) + 1) ELSE val

diff(T, id, op, val) ==
  IF ~Ok(T) THEN T ELSE diffChain(Alloc(T, val), id, KV(op, Held(T, val)))

(***************************************************************************)
(* Tome.conjure and the init methods.                                      *)
(***************************************************************************)
\* the id of the next node the tree creates
NewId(T) == Len(T.nodes) + 1

RECURSIVE conjure(_, _, _, _)
RECURSIVE ArrayTome_init_conjure(_, _, _, _)
RECURSIVE ObjectTome_init_conjure(_, _, _, _)
RECURSIVE emitAddAll(_, _, _)
\* for (i = 0; i < len; i += 1) { this.emitAdd(keys[i]) }
emitAddAll(T, id, keys) ==
  IF keys = <<>> THEN T
  ELSE emitAddAll(emitAdd(T, id, Head(keys)), id, Tail(keys))

\* the first loop of ArrayTome.init, from element i (1-based) on
\* this._arr[i] = c of a 1-based slot i that exists
setSlot(T, id, i, c) == IF Ok(T) THEN [T EXCEPT !.nodes[id].arr[i] = c] ELSE T

\* if (val.hasOwnProperty(i)) { this[i] = this._arr[i] }
ownElement(T, id, elem, i, c) == IF elem = Hole THEN T ELSE own(T, id, IndexKey(i - 1), c)

ArrayTome_init_conjure(T, id, elems, i) ==
  IF ~Ok(T) \/ i > Len(elems) THEN T
  ELSE ArrayTome_init_conjure(
         ownElement(setSlot(conjure(T, elems[i], id, IndexKey(i - 1)), id, i, NewId(T)),
                    id, elems[i], i, NewId(T)),
         id, elems, i + 1)

\* this._arr = new Array(len); this.length = len
ArrayTome_init_alloc(T, id, len) ==
  [T EXCEPT !.nodes[id].arr = [i \in 1..len |-> 0], !.nodes[id].length = len]

ArrayTome_init_elems(T, id, elems) ==
  emitAddAll(ArrayTome_init_conjure(ArrayTome_init_alloc(T, id, Len(elems)), id, elems, 1),
             id, [i \in 1..Len(elems) |-> IndexKey(i - 1)])

ArrayTome_init(T, id, val) == ArrayTome_init_elems(T, id, Elems(T.heap, val))

\* the first loop of ObjectTome.init, from property i on
\* this[key] = (kv === undefined) ? undefined : Tome.conjure(kv, this, key)
ObjectTome_init_key(T, id, kv) ==
  IF typeOf(kv.v) = "undefined" THEN own(T, id, kv.k, 0)
  ELSE own(conjure(T, kv.v, id, kv.k), id, kv.k, NewId(T))

ObjectTome_init_conjure(T, id, o, i) ==
  IF ~Ok(T) \/ i > Len(o) THEN T
  ELSE ObjectTome_init_conjure(ObjectTome_init_key(T, id, o[i]), id, o, i + 1)

ObjectTome_init(T, id, val) ==
  emitAddAll(ObjectTome_init_conjure(T, id, val.o, 1), id, KeysOf(val.o))

\* BooleanTome, NumberTome and StringTome: this._val = val.valueOf()
ScalarTome_init(T, id, val) == [T EXCEPT !.nodes[id].val = val]

\* this.init(val) of a node whose prototype is that of type
init(T, id, type, val) ==
  IF ~Ok(T) THEN T
  ELSE CASE type = "array" -> ArrayTome_init(T, id, val)
         [] type = "object" -> ObjectTome_init(T, id, val)
         [] type \in {"boolean", "number", "string"} -> ScalarTome_init(T, id, val)
         [] OTHER -> T

conjure(T, val, parent, key) ==
  IF ~Ok(T) THEN T
  ELSE LET vType == typeOf(val)
           pType == IF parent = 0 THEN "undefined" ELSE T.nodes[parent].type
           id == NewId(T)
           root == IF parent = 0 THEN id ELSE T.nodes[parent].root
       IN IF vType = "undefined" /\ pType # "array" THEN throw(T, "InvalidElementType")
          ELSE IF vType \notin tomeMap THEN throw(T, "InvalidValueType")
          ELSE init([T EXCEPT !.nodes = Append(@, Tome(vType, parent, key, root))],
                    id, vType, val)

(***************************************************************************)
(* destroy, reset, assign, set and del of Tome.prototype.                  *)
(***************************************************************************)
RECURSIVE destroy(_, _)
RECURSIVE destroy_children(_, _, _)

\* the loop of destroy over Object.keys(this)
destroy_children(T, id, keys) ==
  IF keys = <<>> THEN T
  ELSE destroy_children(destroy(T, Get(T, id, Head(keys))), id, Tail(keys))

\* destroy() of node id; nothing when id is 0, the callers' test of
\* "instanceof Tome"
destroy(T, id) ==
  IF ~Ok(T) \/ id = 0 THEN T
  ELSE emitDestroy(destroy_children(T, id, KeysOf(T.nodes[id].props)), id)

RECURSIVE reset_delete(_, _, _)
\* the first loop of reset: delete every child and destroy it
\* o = this[k]; if (o instanceof Tome) { delete this[k]; o.destroy() }
reset_key(T, id, k, o) == IF o = 0 THEN T ELSE destroy(disown(T, id, k), o)

reset_delete(T, id, keys) ==
  IF keys = <<>> THEN T
  ELSE reset_delete(reset_key(T, id, Head(keys), Get(T, id, Head(keys))), id, Tail(keys))

RECURSIVE emitDelAll(_, _, _)
\* the second loop of reset: emitDel for every key there was
emitDelAll(T, id, keys) ==
  IF keys = <<>> THEN T
  ELSE emitDelAll(emitDel(T, id, Head(keys)), id, Tail(keys))

\* delete this._arr; delete this.length; delete this._val
reset_fields(T, id) ==
  [T EXCEPT !.nodes[id].arr = <<>>, !.nodes[id].length = 0, !.nodes[id].val = Undef]

reset_keys(T, id, keys) == emitDelAll(reset_delete(reset_fields(T, id), id, keys), id, keys)

reset(T, id) == IF ~Ok(T) THEN T ELSE reset_keys(T, id, KeysOf(T.nodes[id].props))

\* this.__proto__ = <the prototype of type>
setProto(T, id, type) == IF ~Ok(T) THEN T ELSE [T EXCEPT !.nodes[id].type = type]

\* if (vType is a container || pType is a container) { this.reset() }
assign_reset(T, id, vType, pType) ==
  IF isContainer(vType) \/ isContainer(pType) THEN reset(T, id) ELSE T

\* the new value of the node: this._val = val.valueOf() for a boolean, a
\* number or a string that stays one, else reset, the new prototype, init
assign_value(T, id, vType, pType, val) ==
  IF vType = pType /\ pType \in {"boolean", "number", "string"}
  THEN [T EXCEPT !.nodes[id].val = val]
  ELSE init(setProto(assign_reset(T, id, vType, pType), id, vType), id, vType, val)

assign(T, id, val) ==
  IF ~Ok(T) THEN T
  ELSE LET n == T.nodes[id]
           vType == typeOf(val)
           pType == n.type
       IN IF vType \notin tomeMap THEN throw(T, "InvalidValueType")
          ELSE IF vType = "undefined" /\ (n.parent = 0 \/ T.nodes[n.parent].type # "array")
          THEN throw(T, "InvalidElementType")
          ELSE IF vType = pType /\ vType \in {"null", "undefined"} THEN T
          ELSE IF vType = pType /\ ~isContainer(vType) /\ n.val = val THEN T
          ELSE diff(assign_value(T, id, vType, pType, val), id, "assign", val)

\* if (!(this instanceof ObjectTome)) { this.reset(); this.__proto__ = ObjectTome.prototype }
Tome_set_reset(T, id) ==
  IF T.nodes[id].type # "object" THEN setProto(reset(T, id), id, "object") ELSE T

\* this[key] = Tome.conjure(val, this, key)
Tome_set_conjure(T, id, key, val) == own(conjure(T, val, id, key), id, key, NewId(T))

\* the add event whether the key is new or not
Tome_set_add_always(T, id, key, had) == emitAdd(T, id, key)

\* if (!this.hasOwnProperty(key)) { ...; this.emitAdd(key); ... }, had being
\* what hasOwnProperty answered before the property was assigned
Tome_set_add(T, id, key, had) == IF had THEN T ELSE emitAdd(T, id, key)

\* the assignment to this[key] in the cases of set that end with a diff:
\* undefined, or a Tome conjured for a key that is new or holds undefined
Tome_set_put(T, id, key, val) ==
  IF typeOf(val) = "undefined" THEN own(T, id, key, 0)
  ELSE Tome_set_add(Tome_set_conjure(T, id, key, val), id, key, hasOwnProperty(T, id, key))

\* set on a node that is an ObjectTome by now: p.assign(val) when this[key]
\* is a Tome and val is not undefined, else the assignment and the diff
Tome_set_key(T, id, key, val) ==
  IF ~Ok(T) THEN T
  ELSE IF typeOf(val) # "undefined" /\ Get(T, id, key) # 0
  THEN assign(T, Get(T, id, key), val)
  ELSE diff(Tome_set_put(T, id, key, val), id, "set", Obj(<<KV(key, val)>>))

\* set that leaves every node alone when the value is undefined
Tome_set_defined(T, id, key, val) ==
  IF ~Ok(T) THEN T
  ELSE IF typeOf(val) = "undefined" THEN T
  ELSE Tome_set_key(Tome_set_reset(T, id), id, key, val)

Tome_set(T, id, key, val) ==
  IF ~Ok(T) THEN T
  ELSE IF typeOf(val) = "undefined"
  THEN IF T.nodes[id].type = "object" THEN Tome_set_key(T, id, key, val) ELSE T
  ELSE Tome_set_key(Tome_set_reset(T, id), id, key, val)

\* del with the reference deleted before the test of the value it held
Tome_del_unchecked(T, id, key) ==
  IF ~Ok(T) THEN T
  ELSE IF ~hasOwnProperty(T, id, key) THEN throw(T, "UndefinedKey")
  ELSE IF Get(T, id, key) = 0 THEN throw(disown(T, id, key), "NotAChild")
  ELSE diff(emitDel(destroy(disown(T, id, key), Get(T, id, key)), id, key),
            id, "del", Str(key))

Tome_del(T, id, key) ==
  IF ~Ok(T) THEN T
  ELSE IF ~hasOwnProperty(T, id, key) THEN throw(T, "UndefinedKey")
  ELSE IF Get(T, id, key) = 0 THEN throw(T, "NotAChild")
  ELSE diff(emitDel(destroy(disown(T, id, key), Get(T, id, key)), id, key),
            id, "del", Str(key))

(***************************************************************************)
(* ArrayTome.  _arr is the backing array (arr, 0 for a slot that holds no  *)
(* Tome), the indexed references are the properties named by index keys.   *)
(***************************************************************************)
Min(a, b) == IF a < b THEN a ELSE b
Max(a, b) == IF a > b THEN a ELSE b

\* arr[i] = c for a 0-based index i, the array growing when i is past its end
SetAt(arr, i, c) ==
  [j \in 1..Max(Len(arr), i + 1) |-> IF j = i + 1 THEN c ELSE IF j <= Len(arr) THEN arr[j] ELSE 0]

\* arr.splice(i, 0, c)
InsertAt(arr, i, c) == SubSeq(arr, 1, i) \o <<c>> \o SubSeq(arr, i + 1, Len(arr))

\* the array without the n elements from the 0-based index i on
Without(arr, i, n) == SubSeq(arr, 1, i) \o SubSeq(arr, i + n + 1, Len(arr))

Reversed(arr) == [i \in 1..Len(arr) |-> arr[Len(arr) + 1 - i]]

\* Array.prototype.sort: a stable sort by the strict weak order Less
StableSort(s, Less(_, _)) ==
  LET rank(i) == Cardinality({j \in 1..Len(s) :
                    Less(s[j], s[i]) \/ (~Less(s[i], s[j]) /\ j < i)})
  IN [p \in 1..Len(s) |-> s[CHOOSE i \in 1..Len(s) : rank(i) = p - 1]]

RECURSIVE ArrayTome_reindex(_, _, _, _)
\* for (i = 0; i < len; i += 1) { this[i] = this._arr[i]; [ this._arr[i].__key__ = i; ] }
\* this._arr[i].__key__ = i, a TypeError when the slot holds no Tome
rekey(T, c, i) == IF c = 0 THEN throw(T, "TypeError") ELSE setKey(T, c, IndexKey(i))

\* one round of that loop, c being this._arr[i]
ArrayTome_reindex_slot(T, id, i, c, withKey) ==
  IF withKey THEN rekey(own(T, id, IndexKey(i), c), c, i) ELSE own(T, id, IndexKey(i), c)

ArrayTome_reindex(T, id, i, withKey) ==
  IF ~Ok(T) \/ i >= Len(T.nodes[id].arr) THEN T
  ELSE ArrayTome_reindex(ArrayTome_reindex_slot(T, id, i, T.nodes[id].arr[i + 1], withKey),
                         id, i + 1, withKey)

RECURSIVE ArrayTome_set_fill(_, _, _, _)
\* the back-fill loop of ArrayTome.set: slots i .. newlen - 1
\* this._arr[i] = c for a 0-based index i
arrPut(T, id, i, c) == IF Ok(T) THEN [T EXCEPT !.nodes[id].arr = SetAt(@, i, c)] ELSE T

ArrayTome_set_fill(T, id, i, newlen) ==
  IF ~Ok(T) \/ i >= newlen THEN T
  ELSE ArrayTome_set_fill(
         emitAdd(syncLength(arrPut(conjure(T, Undef, id, IndexKey(i)), id, i, NewId(T)), id),
                 id, IndexKey(i)),
         id, i + 1, newlen)

\* this._arr[key] = Tome.conjure(val, this, key); this[key] = this._arr[key];
\* this.length = this._arr.length
ArrayTome_set_new(T, id, okey, key, val) ==
  setLength(own(arrPut(conjure(T, val, id, okey), id, key, NewId(T)), id, okey, NewId(T)),
            id, key + 1)

\* ArrayTome.set for a key that is an index; it hands any other key to
\* Tome.prototype.set, which is where set sends it
ArrayTome_set(T, id, okey, val) ==
  IF ~Ok(T) THEN T
  ELSE IF IndexOf(okey) >= Len(T.nodes[id].arr)
  THEN diff(ArrayTome_set_fill(
              emitAdd(ArrayTome_set_new(T, id, okey, IndexOf(okey), val), id, okey),
              id, Len(T.nodes[id].arr), IndexOf(okey)),
            id, "set", Obj(<<KV(okey, val)>>))
  ELSE IF Get(T, id, okey) # 0 THEN assign(T, Get(T, id, okey), val)
  ELSE T

ArrayTome_del(T, id, key) ==
  IF ~Ok(T) THEN T
  ELSE IF ~hasOwnProperty(T, id, key) THEN throw(T, "UndefinedKey")
  ELSE IF Get(T, id, key) = 0 THEN throw(T, "NotAChild")
  ELSE diff(emitDel(own(arrPut(conjure(T, Undef, id, key), id, IndexOf(key), NewId(T)),
                        id, key, NewId(T)),
                    id, key),
            id, "del", Num(IndexOf(key)))

\* this._arr.shift()
arrShift(T, id) ==
  IF Ok(T) THEN [T EXCEPT !.nodes[id].arr = IF @ = <<>> THEN <<>> ELSE Tail(@)] ELSE T

\* the body of shift after this._arr.shift(), o being this[0]
ArrayTome_shift_rest(T, id, o, len) ==
  IF o = 0 THEN T
  ELSE diff(emitDel(destroy(setLength(disown(ArrayTome_reindex(disown(T, id, IndexKey(0)),
                                                                id, 0, TRUE),
                                             id, IndexKey(len)),
                                      id, len),
                            o),
                    id, IndexKey(0)),
            id, "shift", Num(1))

ArrayTome_shift_body(T, id) ==
  ArrayTome_shift_rest(T, id, Get(T, id, IndexKey(0)), Len(T.nodes[id].arr))

ArrayTome_shift(T, id) == IF ~Ok(T) THEN T ELSE ArrayTome_shift_body(arrShift(T, id), id)

\* the body of pop for an array that is not empty, len being its new length
\* and o this[len]
ArrayTome_pop_rest(T, id, o, len) ==
  diff(emitDel(destroy(disown(setLength(setArr(T, id, SubSeq(T.nodes[id].arr, 1, len)),
                                        id, len),
                              id, IndexKey(len)),
                       o),
               id, IndexKey(len)),
       id, "pop", Num(1))

ArrayTome_pop(T, id) ==
  IF ~Ok(T) \/ T.nodes[id].arr = <<>> THEN T
  ELSE ArrayTome_pop_rest(T, id, Get(T, id, IndexKey(Len(T.nodes[id].arr) - 1)),
                          Len(T.nodes[id].arr) - 1)

RECURSIVE ArrayTome_push_loop(_, _, _, _, _)
\* the loop of push over the arguments, from argument i (0-based) on
\* this._arr.push(c)
arrPush(T, id, c) == IF Ok(T) THEN [T EXCEPT !.nodes[id].arr = Append(@, c)] ELSE T

\* one round of that loop: the argument arg becomes element k
ArrayTome_push_one(T, id, k, arg) ==
  emitAdd(syncLength(own(arrPush(conjure(T, arg, id, IndexKey(k)), id, NewId(T)),
                         id, IndexKey(k), NewId(T)),
                     id),
          id, IndexKey(k))

ArrayTome_push_loop(T, id, length, args, i) ==
  IF ~Ok(T) \/ i >= Len(args) THEN T
  ELSE ArrayTome_push_loop(ArrayTome_push_one(T, id, length + i, args[i + 1]),
                           id, length, args, i + 1)

ArrayTome_push(T, id, args) ==
  IF ~Ok(T) \/ args = <<>> THEN T
  ELSE diff(ArrayTome_push_loop(T, id, Len(T.nodes[id].arr), args, 0), id, "push", Arr(args))

ArrayTome_reverse(T, id) ==
  IF ~Ok(T) THEN T
  ELSE diff(ArrayTome_reindex(setArr(T, id, Reversed(T.nodes[id].arr)), id, 0, TRUE),
            id, "reverse", Num(1))

RECURSIVE ArrayTome_splice_remove(_, _, _, _, _)
\* the first loop of splice: the references of the removed elements
\* one round of that loop, o being this[key]
ArrayTome_splice_remove_one(T, id, key, o) ==
  emitDel(destroy(syncLength(disown(T, id, key), id), o), id, key)

ArrayTome_splice_remove(T, id, spliceIndex, removed, i) ==
  IF ~Ok(T) \/ i >= removed THEN T
  ELSE ArrayTome_splice_remove(
         ArrayTome_splice_remove_one(T, id, IndexKey(spliceIndex + i),
                                     Get(T, id, IndexKey(spliceIndex + i))),
         id, spliceIndex, removed, i + 1)

RECURSIVE ArrayTome_splice_add(_, _, _, _, _)
\* the second loop of splice: conjure and insert the new elements
\* this._arr.splice(key, 0, c)
arrInsert(T, id, key, c) ==
  IF Ok(T) THEN [T EXCEPT !.nodes[id].arr = InsertAt(@, key, c)] ELSE T

\* one round of that loop: the value arg becomes element key
ArrayTome_splice_add_one(T, id, key, arg) ==
  emitAdd(syncLength(own(arrInsert(conjure(T, arg, id, IndexKey(key)), id, key, NewId(T)),
                         id, IndexKey(key), NewId(T)),
                     id),
          id, IndexKey(key))

ArrayTome_splice_add(T, id, spliceIndex, toAdd, i) ==
  IF ~Ok(T) \/ i >= Len(toAdd) THEN T
  ELSE ArrayTome_splice_add(ArrayTome_splice_add_one(T, id, spliceIndex + i, toAdd[i + 1]),
                            id, spliceIndex, toAdd, i + 1)

RECURSIVE ArrayTome_splice_trim(_, _, _, _)
\* the last loop of splice: delete this[this._arr.length + i] for i < removed
ArrayTome_splice_trim(T, id, removed, i) ==
  IF ~Ok(T) \/ i >= removed THEN T
  ELSE ArrayTome_splice_trim(disown(T, id, IndexKey(Len(T.nodes[id].arr) + i)),
                             id, removed, i + 1)

\* if (toRemove !== 0 || toAdd.length > 0) { this.diff('splice', ...) }
ArrayTome_splice_diff(T, id, spliceIndex, toRemove, toAdd) ==
  IF toRemove # 0 \/ Len(toAdd) > 0
  THEN diff(T, id, "splice", Arr(<<Num(spliceIndex), Num(toRemove)>> \o toAdd))
  ELSE T

\* the body of splice; removed is out.length of
\* this._arr.splice(spliceIndex, toRemove)
ArrayTome_splice_body(T, id, spliceIndex, removed, toRemove, toAdd) ==
  ArrayTome_splice_diff(
    ArrayTome_splice_trim(
      ArrayTome_reindex(
        ArrayTome_splice_add(
          ArrayTome_splice_remove(
            setArr(T, id, Without(T.nodes[id].arr, spliceIndex, removed)),
            id, spliceIndex, removed, 0),
          id, spliceIndex, toAdd, 0),
        id, 0, FALSE),
      id, IF removed > Len(toAdd) THEN removed ELSE 0, 0),
    id, spliceIndex, toRemove, toAdd)

\* var spliceIndex = start >= 0 ? Math.min(start, len) : Math.max(len + start, 0)
SpliceIndex(start, len) == IF start >= 0 THEN Min(start, len) ELSE Max(len + start, 0)

ArrayTome_splice(T, id, start, toRemove, toAdd) ==
  IF ~Ok(T) THEN T
  ELSE ArrayTome_splice_body(
         T, id, SpliceIndex(start, Len(T.nodes[id].arr)),
         Max(0, Min(toRemove, Len(T.nodes[id].arr) - SpliceIndex(start, Len(T.nodes[id].arr)))),
         toRemove, toAdd)

\* r.o and r.n of an entry of a rename list
Field(v, k) == IF v.t = "object" /\ HasKey(v.o, k) THEN Lookup(v.o, k) ELSE Undef
ON(o, n) == Obj(<<KV("o", o), KV("n", n)>>)

RECURSIVE ArrayTome_rename_keys(_, _, _, _)
\* the first loop of ArrayTome.rename: this._arr[r.o].__key__ = r.n
ArrayTome_rename_keys(T, id, val, i) ==
  IF ~Ok(T) \/ i > Len(val) THEN T
  ELSE LET o == Field(val[i], "o")
           n == Field(val[i], "n")
           arr == T.nodes[id].arr
       IN IF o.t # "number" \/ o.n < 0 \/ o.n >= Len(arr) \/ arr[o.n + 1] = 0
          THEN throw(T, "TypeError")
          ELSE ArrayTome_rename_keys(
                 [T EXCEPT !.nodes[arr[o.n + 1]].key =
                              IF n.t = "number" THEN IndexKey(n.n) ELSE "NaN"],
                 id, val, i + 1)

\* a.__key__ - b.__key__ < 0, which it is not when a key is no number
KeyBefore(T, a, b) ==
  /\ IsIndexKey(T.nodes[a].key)
  /\ IsIndexKey(T.nodes[b].key)
  /\ IndexOf(T.nodes[a].key) < IndexOf(T.nodes[b].key)

\* this._arr.sort(function (a, b) { return a.__key__ - b.__key__ })
ArrayTome_rename_sort(T, id) ==
  IF ~Ok(T) THEN T
  ELSE LET Less(a, b) == KeyBefore(T, a, b)
       IN [T EXCEPT !.nodes[id].arr = StableSort(@, Less)]

ArrayTome_rename_list(T, id, list) ==
  diff(ArrayTome_reindex(ArrayTome_rename_sort(ArrayTome_rename_keys(T, id, list, 1), id),
                         id, 0, FALSE),
       id, "rename",
       Arr([i \in 1..Len(list) |-> ON(Field(list[i], "o"), Field(list[i], "n"))]))

ArrayTome_rename(T, id, val) ==
  IF ~Ok(T) THEN T
  ELSE IF typeOf(val) # "array" THEN throw(T, "Error")
  ELSE ArrayTome_rename_list(T, id, Elems(T.heap, val))

RECURSIVE Digits(_)
\* the characters of the decimal string of an integer, '-' as -1
Digits(n) ==
  IF n < 0 THEN <<-1>> \o Digits(-n)
  ELSE IF n < 10 THEN <<n>>
  ELSE Digits(n \div 10) \o <<n % 10>>

RECURSIVE TextBefore(_, _)
\* s < t for two strings, as sequences of characters
TextBefore(s, t) ==
  IF t = <<>> THEN FALSE
  ELSE IF s = <<>> THEN TRUE
  ELSE IF Head(s) # Head(t) THEN Head(s) < Head(t)
  ELSE TextBefore(Tail(s), Tail(t))

\* toString() of an element, as the default comparator of sort reads it:
\* the digits of a number, "[object Object]" (10, past every digit) for an
\* ObjectTome, a NullTome and an UndefinedTome
SortText(T, c) == IF T.nodes[c].type = "number" THEN Digits(T.nodes[c].val.n) ELSE <<10>>

\* the elements the model sorts: those whose toString() SortText gives
Sortable(T, id) ==
  \A i \in 1..Len(T.nodes[id].arr) :
     /\ T.nodes[id].arr[i] # 0
     /\ T.nodes[T.nodes[id].arr[i]].type \in {"number", "object", "null", "undefined"}

RECURSIVE ArrayTome_sort_loop(_, _, _, _)
\* the loop of sort: re-key the moved elements, diff the list of moves so far
ArrayTome_sort_loop(T, id, i, moves) ==
  IF i >= Len(T.nodes[id].arr)
  THEN IF moves # <<>> THEN diff(T, id, "rename", Arr(moves)) ELSE T
  ELSE LET c == T.nodes[id].arr[i + 1]
           oldkey == T.nodes[c].key
       IN IF oldkey # IndexKey(i)
          THEN ArrayTome_sort_loop(
                 [T EXCEPT !.nodes[c].key = IndexKey(i),
                           !.nodes[id].props = Put(@, IndexKey(i), c)],
                 id, i + 1, Append(moves, ON(Num(IndexOf(oldkey)), Num(i))))
          ELSE ArrayTome_sort_loop(T, id, i + 1, moves)

ArrayTome_sort(T, id) ==
  IF ~Ok(T) THEN T
  ELSE LET Less(a, b) == TextBefore(SortText(T, a), SortText(T, b))
       IN ArrayTome_sort_loop([T EXCEPT !.nodes[id].arr = StableSort(@, Less)], id, 0, <<>>)

\* this._arr.unshift(c)
arrUnshift(T, id, c) == IF Ok(T) THEN [T EXCEPT !.nodes[id].arr = <<c>> \o @] ELSE T

RECURSIVE ArrayTome_unshift_conjure(_, _, _, _)
\* the first loop of unshift, from argument i (0-based) down to 0
ArrayTome_unshift_conjure(T, id, args, i) ==
  IF ~Ok(T) \/ i < 0 THEN T
  ELSE ArrayTome_unshift_conjure(
         arrUnshift(conjure(T, args[i + 1], id, IndexKey(i)), id, NewId(T)),
         id, args, i - 1)

RECURSIVE ArrayTome_unshift_add(_, _, _, _)
\* the last loop of unshift: this.length = ...; this.emitAdd(i)
ArrayTome_unshift_add(T, id, arglen, i) ==
  IF ~Ok(T) \/ i >= arglen THEN T
  ELSE ArrayTome_unshift_add(emitAdd(syncLength(T, id), id, IndexKey(i)), id, arglen, i + 1)

ArrayTome_unshift(T, id, args) ==
  IF ~Ok(T) \/ args = <<>> THEN T
  ELSE diff(ArrayTome_unshift_add(
              ArrayTome_reindex(ArrayTome_unshift_conjure(T, id, args, Len(args) - 1),
                                id, 0, TRUE),
              id, Len(args), 0),
            id, "unshift", Arr(args))

(***************************************************************************)
(* ArrayTome.concat.  An argument is a plain value or a Tome, TomeArg(id)   *)
(* being the node id handed over as it is; the call returns the new array   *)
(* as TomeArg of its node.                                                  *)
(***************************************************************************)
TomeArg(id) == [t |-> "tome", id |-> id]

RECURSIVE ArrayTome_concat_copy(_, _, _, _)
\* the first loop of concat: out._arr[i] = this._arr[i]; out[i] = out._arr[i]
ArrayTome_concat_copy(T, id, out, i) ==
  IF ~Ok(T) \/ i > Len(T.nodes[id].arr) THEN T
  ELSE ArrayTome_concat_copy(own(T, out, IndexKey(i - 1), T.nodes[id].arr[i]), id, out, i + 1)

\* out._arr.push(c); out[len] = out._arr[len]
ArrayTome_concat_push(T, out, c) ==
  own(arrPush(T, out, c), out, IndexKey(Len(T.nodes[out].arr)), c)

RECURSIVE ArrayTome_concat_tomes(_, _, _, _)
\* the elements newVal[j] of an array Tome, from j on
ArrayTome_concat_tomes(T, out, newVal, j) ==
  IF ~Ok(T) \/ j >= T.nodes[newVal].length THEN T
  ELSE ArrayTome_concat_tomes(ArrayTome_concat_push(T, out, Get(T, newVal, IndexKey(j))),
                              out, newVal, j + 1)

RECURSIVE ArrayTome_concat_values(_, _, _, _, _)
\* the elements of a plain array, each conjured with this as its parent
ArrayTome_concat_values(T, id, out, vals, j) ==
  IF ~Ok(T) \/ j > Len(vals) THEN T
  ELSE ArrayTome_concat_values(
         ArrayTome_concat_push(conjure(T, vals[j], id, IndexKey(Len(T.nodes[out].arr))),
                               out, NewId(T)),
         id, out, vals, j + 1)

\* one round of the loop over the arguments
ArrayTome_concat_arg(T, id, out, newVal) ==
  IF newVal.t = "tome"
  THEN IF T.nodes[newVal.id].type = "array"
       THEN ArrayTome_concat_tomes(T, out, newVal.id, 0)
       ELSE ArrayTome_concat_push(T, out, newVal.id)
  ELSE IF typeOf(newVal) = "array"
       THEN ArrayTome_concat_values(T, id, out, Elems(T.heap, newVal), 1)
       ELSE ArrayTome_concat_values(T, id, out, <<newVal>>, 1)

RECURSIVE ArrayTome_concat_args(_, _, _, _, _)
ArrayTome_concat_args(T, id, out, args, i) ==
  IF ~Ok(T) \/ i > Len(args) THEN T
  ELSE ArrayTome_concat_args(ArrayTome_concat_arg(T, id, out, args[i]), id, out, args, i + 1)

\* out.length = len; return out
ArrayTome_concat_return(T, out) ==
  IF ~Ok(T) THEN T ELSE [syncLength(T, out) EXCEPT !.ret = TomeArg(out)]

\* var out = Tome.conjure([]); out._arr = new Array(len) and the loops
ArrayTome_concat(T, id, args) ==
  IF ~Ok(T) THEN T
  ELSE ArrayTome_concat_return(
         ArrayTome_concat_args(
           ArrayTome_concat_copy(setArr(conjure(T, Arr(<<>>), 0, ""), NewId(T),
                                        T.nodes[id].arr),
                                 id, NewId(T), 1),
           id, NewId(T), args, 1),
         NewId(T))

(***************************************************************************)
(* NumberTome.inc                                                          *)
(***************************************************************************)
\* inc recorded as the assignment of the new value
NumberTome_inc_assigned(T, id, amount) ==
  IF ~Ok(T) THEN T
  ELSE LET val == IF amount = Undef THEN Num(1) ELSE amount
       IN IF val.t # "number" THEN throw(T, "NotANumber")
          ELSE IF val.n = 0 THEN T
          ELSE diff([T EXCEPT !.nodes[id].val = Num(@.n + val.n)], id, "assign",
                    Num(T.nodes[id].val.n + val.n))

NumberTome_inc(T, id, amount) ==
  IF ~Ok(T) THEN T
  ELSE LET val == IF amount = Undef THEN Num(1) ELSE amount
       IN IF val.t # "number" THEN throw(T, "NotANumber")
          ELSE IF val.n = 0 THEN T
          ELSE diff([T EXCEPT !.nodes[id].val = Num(@.n + val.n)], id, "inc", val)

(***************************************************************************)
(* pause, resume and notify                                                *)
(***************************************************************************)
return(T, v) == IF ~Ok(T) THEN T ELSE [T EXCEPT !.ret = v]

\* pause without the test of the buffer: a fresh buffer on every call
pause_afresh(T, id) ==
  IF ~Ok(T) THEN T
  ELSE return([T EXCEPT !.nodes[T.nodes[id].root].buffer = [on |-> TRUE, q |-> <<>>]],
              Bool(FALSE))

pause(T, id) ==
  IF ~Ok(T) THEN T
  ELSE IF ~Paused(T, id)
  THEN return([T EXCEPT !.nodes[T.nodes[id].root].buffer = [on |-> TRUE, q |-> <<>>]],
              Bool(FALSE))
  ELSE return(T, Bool(TRUE))

RECURSIVE notify(_, _)
RECURSIVE notify_children(_, _, _)

\* if (this[k] && this[k].__diff__) { this[k].notify() }
notify_child(T, c) == IF c # 0 /\ T.nodes[c].diff # Undef THEN notify(T, c) ELSE T

\* the loop of notify over Object.keys(this)
notify_children(T, id, keys) ==
  IF keys = <<>> THEN T
  ELSE notify_children(notify_child(T, Get(T, id, Head(keys))), id, Tail(keys))

\* notify's three events without this.__diff__ = undefined
notify_emit_keep(T, id) ==
  [T EXCEPT !.log = @ \o <<Event(id, "signal", "", "", valueOf(T, id)),
                            Event(id, "change", "", "", valueOf(T, id)),
                            Event(id, "diff", "", "", Deref(T.heap, T.nodes[id].diff))>>]

\* the three events of notify, and this.__diff__ = undefined
notify_emit(T, id) ==
  [T EXCEPT !.log = @ \o <<Event(id, "signal", "", "", valueOf(T, id)),
                            Event(id, "change", "", "", valueOf(T, id)),
                            Event(id, "diff", "", "", Deref(T.heap, T.nodes[id].diff))>>,
            !.nodes[id].diff = Undef]

\* notify that does not visit the children
notify_shallow(T, id) ==
  IF ~Ok(T) THEN T
  ELSE IF T.nodes[id].diff = Undef THEN return(T, Bool(FALSE))
  ELSE return(notify_emit(T, id), Undef)

notify(T, id) ==
  IF ~Ok(T) THEN T
  ELSE IF T.nodes[id].diff = Undef THEN return(T, Bool(FALSE))
  ELSE return(notify_children(notify_emit(T, id), id, KeysOf(T.nodes[id].props)), Undef)

\* the emit of one buffered event
resume_op(T, kind, op) ==
  CASE kind = "add" -> emit(T, op.tome, kind, op.key, "", ValueAt(T, op.tome, op.key))
    [] kind = "del" -> emit(T, op.tome, kind, op.key, "", Undef)
    [] kind = "rename" -> emit(T, op.tome, kind, op.key, op.newKey, Undef)
    [] kind = "destroy" -> emit(T, op.tome, kind, "", "", Undef)
    [] OTHER -> throw(T, "TypeError")

RECURSIVE resume_ops(_, _, _)
\* the inner loops of resume: emit the buffered events of one kind
resume_ops(T, kind, ops) ==
  IF ops = <<>> THEN T
  ELSE resume_ops(resume_op(T, kind, Head(ops)), kind, Tail(ops))

\* the events of one kind in a buffer
OpsOf(q, kind) ==
  IF HasKind(q, kind) THEN (CHOOSE e \in {q[i] : i \in 1..Len(q)} : e.kind = kind).ops
  ELSE <<>>

\* resume's loops were the kinds taken in the order add, del, rename, destroy
resume_kinds_fixed(T, q) ==
  resume_ops(resume_ops(resume_ops(resume_ops(T, "add", OpsOf(q, "add")),
                                   "del", OpsOf(q, "del")),
                        "rename", OpsOf(q, "rename")),
             "destroy", OpsOf(q, "destroy"))

RECURSIVE resume_kinds(_, _)
\* for (var opName in buffer): the kinds in the order the buffer got them
resume_kinds(T, q) ==
  IF ~Ok(T) \/ q = <<>> THEN T
  ELSE resume_kinds(resume_ops(T, Head(q).kind, Head(q).ops), Tail(q))

\* this.__root__.__buffer__ = false
unbuffer(T, root) == IF Ok(T) THEN [T EXCEPT !.nodes[root].buffer = NoBuffer] ELSE T

\* resume with the notify walk before the flush of the buffer
resume_notify_first(T, id) ==
  IF ~Ok(T) THEN T
  ELSE IF ~Paused(T, id) THEN return(T, Bool(FALSE))
  ELSE return(unbuffer(resume_kinds(notify(T, T.nodes[id].root),
                                    T.nodes[T.nodes[id].root].buffer.q),
                       T.nodes[id].root),
              Bool(TRUE))

resume(T, id) ==
  IF ~Ok(T) THEN T
  ELSE IF ~Paused(T, id) THEN return(T, Bool(FALSE))
  ELSE return(notify(unbuffer(resume_kinds(T, T.nodes[T.nodes[id].root].buffer.q),
                              T.nodes[id].root),
                     T.nodes[id].root),
              Bool(TRUE))

(***************************************************************************)
(* ObjectTome.rename                                                       *)
(***************************************************************************)
\* String(v), the property name a value is used as; a name that is no
\* key of the model stands for the names no property has
KeyOfVal(heap, v) ==
  CASE v.t = "string" -> v.s
    [] v.t = "number" -> ToString(v.n)
    [] typeOf(v) = "array" /\ Len(Elems(heap, v)) = 1 /\ Elems(heap, v)[1].t = "string" ->
         Elems(heap, v)[1].s
    [] typeOf(v) = "array" /\ Len(Elems(heap, v)) = 1 /\ Elems(heap, v)[1].t = "number" ->
         ToString(Elems(heap, v)[1].n)
    [] OTHER -> "String(" \o v.t \o ")"

\* if (this.hasOwnProperty(newKey)) { this.del(newKey) }
ObjectTome_rename_del(T, id, newKey) ==
  IF hasOwnProperty(T, id, newKey) THEN Tome_del(T, id, newKey) ELSE T

\* this[newKey] = this[oldKey]; this[newKey].__key__ = newKey; delete this[oldKey];
\* a TypeError when this[oldKey] is undefined
ObjectTome_rename_move(T, id, oldKey, newKey) ==
  IF ~Ok(T) THEN T
  ELSE IF Get(T, id, oldKey) = 0 THEN throw(own(T, id, newKey, 0), "TypeError")
  ELSE disown(setKey(own(T, id, newKey, Get(T, id, oldKey)), Get(T, id, oldKey), newKey),
              id, oldKey)

\* one round of the loop of rename
ObjectTome_rename_one(T, id, oldKey, newKey, r) ==
  IF ~hasOwnProperty(T, id, oldKey) THEN throw(T, "UndefinedKey")
  ELSE diff(emitRename(ObjectTome_rename_move(ObjectTome_rename_del(T, id, newKey),
                                              id, oldKey, newKey),
                       id, oldKey, newKey),
            id, "rename", r)

RECURSIVE ObjectTome_rename_loop(_, _, _, _)
ObjectTome_rename_loop(T, id, arr, i) ==
  IF ~Ok(T) \/ i > Len(arr) THEN T
  ELSE ObjectTome_rename_loop(
         ObjectTome_rename_one(T, id, KeyOfVal(T.heap, Field(arr[i], "o")),
                               KeyOfVal(T.heap, Field(arr[i], "n")),
                               ON(Field(arr[i], "o"), Field(arr[i], "n"))),
         id, arr, i + 1)

\* if (len > 1) { wasPaused = this.pause() }
ObjectTome_rename_pause(T, id, len) == IF len > 1 THEN pause(T, id) ELSE T

\* if (!wasPaused && len > 1) { this.resume() }
ObjectTome_rename_resume(T, id, wasPaused, len) ==
  IF ~wasPaused /\ len > 1 THEN resume(T, id) ELSE T

ObjectTome_rename_list(T, id, arr) ==
  return(ObjectTome_rename_resume(
           ObjectTome_rename_loop(ObjectTome_rename_pause(T, id, Len(arr)), id, arr, 1),
           id, Paused(T, id), Len(arr)),
         Undef)

\* rename(arg) with arg an { o, n } object or a list of them; the legacy
\* rename('o', 'n') is rename({ o: 'o', n: 'n' })
ObjectTome_rename(T, id, arg) ==
  IF ~Ok(T) THEN T
  ELSE IF typeOf(arg) \notin {"object", "array"} THEN throw(T, "TypeError")
  ELSE ObjectTome_rename_list(T, id, IF typeOf(arg) = "object" THEN <<arg>>
                                      ELSE Elems(T.heap, arg))

(***************************************************************************)
(* merge and consume.  A method is looked up on the prototype the node has *)
(* when the call is made; calling a method the prototype lacks is a        *)
(* TypeError.                                                              *)
(***************************************************************************)
set(T, id, key, val) ==
  IF ~Ok(T) THEN T
  ELSE IF T.nodes[id].type = "array" /\ IsIndexKey(key) THEN ArrayTome_set(T, id, key, val)
  ELSE Tome_set(T, id, key, val)

del(T, id, key) ==
  IF ~Ok(T) THEN T
  ELSE IF T.nodes[id].type = "array" THEN ArrayTome_del(T, id, key)
  ELSE Tome_del(T, id, key)

rename(T, id, val) ==
  IF ~Ok(T) THEN T
  ELSE CASE T.nodes[id].type = "array" -> ArrayTome_rename(T, id, val)
         [] T.nodes[id].type = "object" -> ObjectTome_rename(T, id, val)
         [] OTHER -> throw(T, "TypeError")

inc(T, id, val) ==
  IF ~Ok(T) THEN T
  ELSE IF T.nodes[id].type = "number" THEN NumberTome_inc(T, id, val)
  ELSE throw(T, "TypeError")

\* the own enumerable properties a for-in loop over v visits
Entries(heap, v) ==
  CASE v.t = "object" -> v.o
    [] typeOf(v) = "array" ->
         [i \in 1..Len(Elems(heap, v)) |-> KV(IndexKey(i - 1), Elems(heap, v)[i])]
    [] OTHER -> <<>>

\* ToNumber(v) as the bound of the loops 'for (i = 0; i < val; i += 1)': 0
\* where the comparison with NaN ends the loop at once
Count(heap, v) ==
  CASE v.t = "number" -> v.n
    [] v.t = "boolean" -> IF v.b THEN 1 ELSE 0
    [] typeOf(v) = "array" /\ Len(Elems(heap, v)) = 1 /\ Elems(heap, v)[1].t = "number" ->
         Elems(heap, v)[1].n
    [] OTHER -> 0

\* key.indexOf('_') === 0 and key.substring(1), for the keys of the model
IsChildKey(key) == \E k \in KeyUniverse : ChildKey(k) = key
ChildOf(key) == CHOOSE k \in KeyUniverse : ChildKey(k) = key

RECURSIVE Repeat(_, _, _, _)
\* for (i = 0; i < n; i += 1) { this.pop() } and its like for shift
Repeat(T, id, op, n) ==
  IF ~Ok(T) \/ n <= 0 THEN T
  ELSE IF T.nodes[id].type # "array" THEN throw(T, "TypeError")
  ELSE Repeat(IF op = "pop" THEN ArrayTome_pop(T, id) ELSE ArrayTome_shift(T, id),
              id, op, n - 1)

\* the arguments of f.apply(this, val)
ApplyArgs(heap, v) == IF typeOf(v) = "array" THEN Elems(heap, v) ELSE <<>>
Applicable(v) == typeOf(v) \in {"array", "object", "null", "undefined"}

\* this.push.apply, this.unshift.apply and this.splice.apply of ArrayTome.merge;
\* a splice payload starts with the two numbers splice recorded
ApplyTo(T, id, op, val) ==
  IF ~Ok(T) THEN T
  ELSE IF T.nodes[id].type # "array" \/ ~Applicable(val) THEN throw(T, "TypeError")
  ELSE LET args == ApplyArgs(T.heap, val)
       IN CASE op = "push" -> ArrayTome_push(T, id, args)
            [] op = "unshift" -> ArrayTome_unshift(T, id, args)
            [] OTHER -> ArrayTome_splice(T, id, args[1].n, args[2].n, SubSeq(args, 3, Len(args)))

RECURSIVE merge(_, _, _)
RECURSIVE Tome_merge_loop(_, _, _)
RECURSIVE Tome_merge_set(_, _, _)

\* case 'set': for (var k in val) { this.set(k, val[k]) }
Tome_merge_set(T, id, kvs) ==
  IF ~Ok(T) \/ kvs = <<>> THEN T
  ELSE Tome_merge_set(set(T, id, Head(kvs).k, Head(kvs).v), id, Tail(kvs))

\* the switch of Tome.prototype.merge on one entry of the record
Tome_merge_entry(T, id, key, val) ==
  CASE key = "set" -> Tome_merge_set(T, id, Entries(T.heap, val))
    [] key = "assign" -> assign(T, id, val)
    [] OTHER ->
         IF IsChildKey(key)
         THEN IF hasOwnProperty(T, id, ChildOf(key))
              THEN IF Get(T, id, ChildOf(key)) = 0
                   THEN throw(T, "TypeError")
                   ELSE merge(T, Get(T, id, ChildOf(key)), val)
              ELSE throw(T, "UndefinedChild")
         ELSE throw(T, "UnknownOperation")

\* the loop of Tome.prototype.merge over the entries of the record
Tome_merge_loop(T, id, entries) ==
  IF ~Ok(T) \/ entries = <<>> THEN T
  ELSE Tome_merge_loop(Tome_merge_entry(T, id, Head(entries).k, Head(entries).v),
                       id, Tail(entries))

Tome_merge(T, id, d) == Tome_merge_loop(T, id, Entries(T.heap, d))

\* the cases of ArrayTome.merge but the default one
ArrayTome_merge_entry(T, id, key, val) ==
  CASE key = "del" -> del(T, id, KeyOfVal(T.heap, val))
    [] key \in {"pop", "shift"} -> Repeat(T, id, key, Count(T.heap, val))
    [] key \in {"push", "splice", "unshift"} -> ApplyTo(T, id, key, val)
    [] key = "rename" -> rename(T, id, val)
    [] OTHER ->
         IF T.nodes[id].type = "array" THEN ArrayTome_reverse(T, id)
         ELSE throw(T, "TypeError")

\* the cases of ObjectTome.merge but the default one
ObjectTome_merge_entry(T, id, key, val) ==
  IF key = "del" THEN del(T, id, KeyOfVal(T.heap, val)) ELSE rename(T, id, val)

\* the keys the merge of a prototype has a case for
Cases(proto) ==
  CASE proto = "array" ->
         {"del", "pop", "push", "rename", "reverse", "shift", "splice", "unshift"}
    [] proto = "number" -> {"inc"}
    [] proto = "object" -> {"del", "rename"}
    [] OTHER -> {}

\* the switch of the merge of the prototype proto on one entry of the record
\* d; the default case hands the whole record to Tome.prototype.merge
merge_entry(T, id, d, proto, key, val) ==
  IF key \notin Cases(proto) THEN Tome_merge(T, id, d)
  ELSE CASE proto = "array" -> ArrayTome_merge_entry(T, id, key, val)
         [] proto = "number" -> inc(T, id, val)
         [] OTHER -> ObjectTome_merge_entry(T, id, key, val)

RECURSIVE merge_loop(_, _, _, _, _)
\* for (var key in diff) of ArrayTome.merge, NumberTome.merge and ObjectTome.merge
merge_loop(T, id, d, proto, entries) ==
  IF ~Ok(T) \/ entries = <<>> THEN T
  ELSE merge_loop(merge_entry(T, id, d, proto, Head(entries).k, Head(entries).v),
                  id, d, proto, Tail(entries))

\* this.merge(d), the merge of the prototype the node has
merge(T, id, d) ==
  IF ~Ok(T) THEN T ELSE merge_loop(T, id, d, T.nodes[id].type, Entries(T.heap, d))

RECURSIVE consume_loop(_, _, _)
consume_loop(T, id, diffs) ==
  IF ~Ok(T) \/ diffs = <<>> THEN T
  ELSE consume_loop(merge(T, id, Head(diffs)), id, Tail(diffs))

\* the merges of consume, one per record of a list of records
consume_merge(T, id, d) ==
  consume_loop(T, id, IF typeOf(d) = "array" THEN Elems(T.heap, d) ELSE <<d>>)

consume(T, id, d) ==
  IF ~Ok(T) THEN T
  ELSE return(resume(consume_merge(pause(T, id), id, d), id), Undef)

(***************************************************************************)
(* The system: a tree A that a caller mutates one call at a time, and a    *)
(* replica B that was conjured from the same value and consumes every diff *)
(* record A's root emits, one consume per record, in emission order.  The  *)
(* records A's listener has not handed to B yet wait in queue; the caller  *)
(* makes its next call when B has consumed them all.                       *)
(***************************************************************************)
\* the number of calls in a behaviour
MaxSteps == 3

Root == 1

InitialValue == Obj(<<KV("a", Num(1)), KV("b", Arr(<<Num(2), Num(1)>>))>>)

\* the start of a call: nothing emitted, thrown or returned yet
Begin(T) == [T EXCEPT !.log = <<>>, !.err = "", !.ret = Undef]

RECURSIVE Reach(_, _)
\* the nodes a caller reaches from id through properties
Reach(T, id) ==
  {id} \cup UNION {Reach(T, T.nodes[id].props[i].v) :
                     i \in {j \in 1..Len(T.nodes[id].props) : T.nodes[id].props[j].v # 0}}

Live(T) == Reach(T, Root)
OfType(T, type) == {id \in Live(T) : T.nodes[id].type = type}

\* the diff records the root emitted during the call, in emission order
RootDiffs(T) ==
  LET at == {i \in 1..Len(T.log) : T.log[i].tome = Root /\ T.log[i].ev = "diff"}
      RECURSIVE pick(_)
      pick(i) == IF i > Len(T.log) THEN <<>>
                 ELSE IF i \in at THEN <<T.log[i].arg>> \o pick(i + 1)
                 ELSE pick(i + 1)
  IN pick(1)

\* the methods that mutate a node; "renameList" is rename called on an
\* ObjectTome with a list of { o, n }
Mutations ==
  {"set", "assign", "del", "inc", "push", "pop", "shift", "unshift", "splice", "reverse",
   "sort", "rename", "renameList"}

\* One call of a method of A, T being the tree it leaves.  last records the
\* call: the method, the node, whether the tree was paused when it was made
\* (paused), whether the replica had A's value then (sync), whether every
\* call so far was a mutation, a pause or a resume that returned (plain), and
\* whether every call so far was a mutation of an unpaused tree that returned
\* (quiet), whether it is a notify of the node whose notify, the call
\* before it, emitted events (again), and how many calls in a row, this one
\* included, have recorded the operation in the pending diff of the node
\* since the node held no entry for it (nth, 0 when the call recorded none or
\* the entry has another history).
OpName(op) == IF op = "renameList" THEN "rename" ELSE op

Nth(op, id, T) ==
  IF ~(Paused(A, Root) /\ Ok(T) /\ HasKey(Record(T, id), OpName(op))) THEN 0
  ELSE IF ~HasKey(Record(A, id), OpName(op)) THEN 1
  ELSE IF last.op = op /\ last.id = id /\ last.nth > 0 THEN last.nth + 1
  ELSE 0

Call(op, id, T) ==
  /\ steps < limit
  /\ queue = <<>>
  /\ A' = T
  /\ queue' = RootDiffs(A')
  /\ last' = [op |-> op, id |-> id, paused |-> Paused(A, Root),
              sync |-> valueOf(A, Root) = valueOf(B, Root),
              plain |-> last.plain /\ Ok(T) /\ op \in Mutations \cup {"pause", "resume"},
              quiet |-> last.quiet /\ Ok(T) /\ op \in Mutations /\ ~Paused(A, Root),
              again |-> op = "notify" /\ last.op = "notify" /\ last.id = id /\ A.log # <<>>,
              nth |-> Nth(op, id, T)]
  /\ steps' = steps + 1
  /\ UNCHANGED <<B, limit>>

Length(T, id) == Len(T.nodes[id].arr)

SetValues == {Num(5), Undef, Arr(<<Num(7)>>)}
AssignValues == {Num(5), Arr(<<Num(7)>>)}
\* values that assign refuses: undefined outside an array, a function, and
\* containers that hold one of them
RefusedValues == {Undef, Fun, Arr(<<Fun>>), Obj(<<KV("c", Undef)>>)}
IncAmounts == {Undef, Num(5)}
Items == {<<Num(5), Num(6)>>}
Splices == {<<0, 1, <<>>>>, <<1, 0, <<Num(9)>>>>, <<-1, 1, <<Num(9), Num(9)>>>>}
ArrayRenames == {Arr(<<ON(Num(0), Num(1)), ON(Num(1), Num(0))>>)}
ObjectRenames == {ON(Str("a"), Str("c")), ON(Str("a"), Str("b"))}
ObjectRenameLists ==
  {Arr(<<ON(Str("a"), Str("c")), ON(Str("b"), Str("a"))>>),
   Arr(<<ON(Str("a"), Str("c")), ON(Str("a"), Str("b"))>>)}
Records ==
  {Obj(<<KV("bogus", Num(1))>>),
   Obj(<<KV("_a", Obj(<<KV("inc", Num(1))>>))>>)}
RecordLists ==
  {Arr(<<Obj(<<KV("set", Obj(<<KV("c", Num(5))>>))>>),
         Obj(<<KV("_b", Obj(<<KV("push", Arr(<<Num(5)>>))>>))>>)>>)}

Set ==
  \E id \in OfType(A, "object"), key \in {"a", "c"}, val \in SetValues :
    Call("set", id, set(Begin(A), id, key, val))

SetIndex ==
  \E id \in OfType(A, "array"), val \in {Num(5)} :
    \E key \in {IndexKey(0), IndexKey(Length(A, id) + 1), "a"} :
      /\ Length(A, id) + 2 <= MaxLen
      /\ Call("set", id, set(Begin(A), id, key, val))

Assign ==
  \E id \in Live(A), val \in AssignValues :
    Call("assign", id, assign(Begin(A), id, val))

Del ==
  \E id \in OfType(A, "object") \cup OfType(A, "array") :
    \E key \in IF A.nodes[id].type = "array" THEN {IndexKey(0)} ELSE {"a", "c"} :
      Call("del", id, del(Begin(A), id, key))

Inc ==
  \E id \in OfType(A, "number"), val \in IncAmounts :
    Call("inc", id, inc(Begin(A), id, val))

Push ==
  \E id \in OfType(A, "array"), args \in Items :
    /\ Length(A, id) + Len(args) <= MaxLen
    /\ Call("push", id, ArrayTome_push(Begin(A), id, args))

Pop == \E id \in OfType(A, "array") : Call("pop", id, ArrayTome_pop(Begin(A), id))

Shift == \E id \in OfType(A, "array") : Call("shift", id, ArrayTome_shift(Begin(A), id))

Unshift ==
  \E id \in OfType(A, "array"), args \in Items :
    /\ Length(A, id) + Len(args) <= MaxLen
    /\ Call("unshift", id, ArrayTome_unshift(Begin(A), id, args))

Splice ==
  \E id \in OfType(A, "array"), s \in Splices :
    /\ Length(A, id) + Len(s[3]) <= MaxLen
    /\ Call("splice", id, ArrayTome_splice(Begin(A), id, s[1], s[2], s[3]))

Reverse == \E id \in OfType(A, "array") : Call("reverse", id, ArrayTome_reverse(Begin(A), id))

Sort ==
  \E id \in OfType(A, "array") :
    /\ Sortable(A, id)
    /\ Call("sort", id, ArrayTome_sort(Begin(A), id))

RenameIndex ==
  \E id \in OfType(A, "array"), val \in ArrayRenames :
    Call("rename", id, rename(Begin(A), id, val))

Rename ==
  \E id \in OfType(A, "object"), val \in ObjectRenames :
    Call("rename", id, rename(Begin(A), id, val))

RenameList ==
  \E id \in OfType(A, "object"), val \in ObjectRenameLists :
    Call("renameList", id, rename(Begin(A), id, val))

\* pause and resume act on the root whichever node they are called on
Pause == \E id \in Live(A) : Call("pause", Root, pause(Begin(A), id))

Resume == \E id \in Live(A) : Call("resume", Root, resume(Begin(A), id))

Notify == \E id \in Live(A) : Call("notify", id, notify(Begin(A), id))

Merge ==
  \E id \in OfType(A, "object"), d \in Records :
    Call("merge", id, merge(Begin(A), id, d))

Consume ==
  \E id \in OfType(A, "object"), d \in Records \cup RecordLists :
    Call("consume", id, consume(Begin(A), id, d))

\* B.consume(record) for the oldest record that waits; nothing listens to B,
\* so its events are dropped
Deliver ==
  /\ queue # <<>>
  /\ B' = [consume(Begin(B), Root, Head(queue)) EXCEPT !.log = <<>>]
  /\ queue' = Tail(queue)
  /\ UNCHANGED <<A, last, steps, limit>>

\* Tome.conjure(InitialValue); the events of the construction have no listener
Conjured == Begin(conjure(EmptyTree, InitialValue, 0, ""))

Init ==
  /\ A = Conjured
  /\ B = Conjured
  /\ queue = <<>>
  /\ last = [op |-> "conjure", id |-> Root, paused |-> FALSE, sync |-> TRUE,
             plain |-> TRUE, quiet |-> TRUE, again |-> FALSE, nth |-> 0]
  /\ steps = 0
  /\ limit = MaxSteps

Next ==
  \/ Set
  \/ SetIndex
  \/ Assign
  \/ Del
  \/ Inc
  \/ Push
  \/ Pop
  \/ Shift
  \/ Unshift
  \/ Splice
  \/ Reverse
  \/ Sort
  \/ RenameIndex
  \/ Rename
  \/ RenameList
  \/ Pause
  \/ Resume
  \/ Notify
  \/ Merge
  \/ Consume
  \/ Deliver

Spec == Init /\ [][Next]_vars

\* the calls of a behaviour that assigns values, some of them refused
MaxAssignSteps == 3

AssignRefused ==
  \E id \in Live(A), val \in RefusedValues :
    Call("assign", id, assign(Begin(A), id, val))

InitAssign ==
  /\ A = Conjured
  /\ B = Conjured
  /\ queue = <<>>
  /\ last = [op |-> "conjure", id |-> Root, paused |-> FALSE, sync |-> TRUE,
             plain |-> TRUE, quiet |-> TRUE, again |-> FALSE, nth |-> 0]
  /\ steps = 0
  /\ limit = MaxAssignSteps

NextAssign ==
  \/ Pause
  \/ Assign
  \/ AssignRefused
  \/ Inc
  \/ Resume
  \/ Deliver

SpecAssign == InitAssign /\ [][NextAssign]_vars

\* the calls of a behaviour that merges records, some of them refused
MaxMergeSteps == 3

\* records whose last entry no node can apply
RefusedRecords ==
  {Obj(<<KV("_a", Obj(<<KV("inc", Num(1))>>)), KV("bogus", Num(1))>>),
   Obj(<<KV("inc", Num(1)), KV("bogus", Num(1))>>),
   Obj(<<KV("_c", Obj(<<KV("inc", Num(1))>>))>>)}

MergeRefused ==
  \E id \in Live(A), d \in RefusedRecords :
    Call("merge", id, merge(Begin(A), id, d))

InitMerge ==
  /\ A = Conjured
  /\ B = Conjured
  /\ queue = <<>>
  /\ last = [op |-> "conjure", id |-> Root, paused |-> FALSE, sync |-> TRUE,
             plain |-> TRUE, quiet |-> TRUE, again |-> FALSE, nth |-> 0]
  /\ steps = 0
  /\ limit = MaxMergeSteps

NextMerge ==
  \/ Pause
  \/ Merge
  \/ MergeRefused
  \/ Del
  \/ Resume
  \/ Deliver

SpecMerge == InitMerge /\ [][NextMerge]_vars

\* the calls of a behaviour that works on the arrays of the tree, long enough
\* to empty one, set an element past its end and work on what that leaves
MaxArraySteps == 4

InitArray ==
  /\ A = Conjured
  /\ B = Conjured
  /\ queue = <<>>
  /\ last = [op |-> "conjure", id |-> Root, paused |-> FALSE, sync |-> TRUE,
             plain |-> TRUE, quiet |-> TRUE, again |-> FALSE, nth |-> 0]
  /\ steps = 0
  /\ limit = MaxArraySteps

NextArray ==
  \/ Pause
  \/ SetIndex
  \/ Push
  \/ Pop
  \/ Shift
  \/ Unshift
  \/ Splice
  \/ Resume
  \/ Deliver

SpecArray == InitArray /\ [][NextArray]_vars

\* the calls of a behaviour that increments numbers, by amounts that change
\* nothing or are refused among them
MaxIncSteps == 4

\* a zero, and amounts that are no numbers
OtherAmounts == {Num(0), Str("5"), Null}

IncOther ==
  \E id \in OfType(A, "number"), val \in OtherAmounts :
    Call("inc", id, inc(Begin(A), id, val))

InitInc ==
  /\ A = Conjured
  /\ B = Conjured
  /\ queue = <<>>
  /\ last = [op |-> "conjure", id |-> Root, paused |-> FALSE, sync |-> TRUE,
             plain |-> TRUE, quiet |-> TRUE, again |-> FALSE, nth |-> 0]
  /\ steps = 0
  /\ limit = MaxIncSteps

NextInc ==
  \/ Pause
  \/ Inc
  \/ IncOther
  \/ Resume
  \/ Deliver

SpecInc == InitInc /\ [][NextInc]_vars

\* the calls of a behaviour that concatenates arrays and works on the arrays
\* concat returned
MaxConcatSteps == 3

\* the arrays concat has returned: the nodes without a parent but the root
Tops(T) == {id \in 1..Len(T.nodes) : T.nodes[id].parent = 0}
Results(T) == Tops(T) \ {Root}

\* no argument, a scalar, a plain array, a number of the tree
ConcatArgs(T) ==
  {<<>>, <<Num(9)>>, <<Arr(<<Num(9)>>)>>} \cup {<<TomeArg(id)>> : id \in OfType(T, "number")}

Concat ==
  \E id \in OfType(A, "array"), args \in ConcatArgs(A) :
    /\ Results(A) = {}
    /\ Call("concat", id, ArrayTome_concat(Begin(A), id, args))

PushResult ==
  \E out \in Results(A), args \in {<<Num(5)>>} :
    /\ Length(A, out) + Len(args) <= MaxLen
    /\ Call("push", out, ArrayTome_push(Begin(A), out, args))

PopResult == \E out \in Results(A) : Call("pop", out, ArrayTome_pop(Begin(A), out))

\* inc on an element of the array concat returned
IncResult ==
  \E out \in Results(A) :
    \E id \in {x \in Reach(A, out) : A.nodes[x].type = "number"} :
      Call("inc", id, inc(Begin(A), id, Num(5)))

PauseResult == \E out \in Results(A) : Call("pause", out, pause(Begin(A), out))

ResumeResult == \E out \in Results(A) : Call("resume", out, resume(Begin(A), out))

InitConcat ==
  /\ A = Conjured
  /\ B = Conjured
  /\ queue = <<>>
  /\ last = [op |-> "conjure", id |-> Root, paused |-> FALSE, sync |-> TRUE,
             plain |-> TRUE, quiet |-> TRUE, again |-> FALSE, nth |-> 0]
  /\ steps = 0
  /\ limit = MaxConcatSteps

NextConcat ==
  \/ Pause
  \/ Concat
  \/ PushResult
  \/ PopResult
  \/ IncResult
  \/ PauseResult
  \/ ResumeResult
  \/ Resume
  \/ Deliver

SpecConcat == InitConcat /\ [][NextConcat]_vars

\* the calls of a behaviour that removes nodes, long enough for a pause, a
\* removal from a container, the removal of the container and the resume
MaxDestroySteps == 4

InitDestroy ==
  /\ A = Conjured
  /\ B = Conjured
  /\ queue = <<>>
  /\ last = [op |-> "conjure", id |-> Root, paused |-> FALSE, sync |-> TRUE,
             plain |-> TRUE, quiet |-> TRUE, again |-> FALSE, nth |-> 0]
  /\ steps = 0
  /\ limit = MaxDestroySteps

NextDestroy ==
  \/ Pause
  \/ Pop
  \/ Del
  \/ Rename
  \/ Assign
  \/ Resume
  \/ Deliver

SpecDestroy == InitDestroy /\ [][NextDestroy]_vars

\* the calls of a behaviour that merges records with several top-level
\* entries, as the root of a paused tree emits them
MaxReplaySteps == 3

IncOne == Obj(<<KV("inc", Num(1))>>)

\* records with two top-level entries for a node of the type
ReplayRecords(type) ==
  CASE type = "object" ->
         {Obj(<<KV("_a", IncOne), KV("_b", Obj(<<KV("_0", IncOne)>>))>>),
          Obj(<<KV("set", Obj(<<KV("c", Num(5))>>)), KV("_a", IncOne)>>)}
    [] type = "array" -> {Obj(<<KV("push", Arr(<<Num(5)>>)), KV("_0", IncOne)>>)}
    [] type = "number" -> {Obj(<<KV("inc", Num(1)), KV("assign", Num(5))>>)}
    [] OTHER -> {}

MergeEntries ==
  \E id \in Live(A) :
    \E d \in ReplayRecords(A.nodes[id].type) :
      /\ \A b \in OfType(A, "array") : Length(A, b) + 2 <= MaxLen
      /\ Call("merge", id, merge(Begin(A), id, d))

InitReplay ==
  /\ A = Conjured
  /\ B = Conjured
  /\ queue = <<>>
  /\ last = [op |-> "conjure", id |-> Root, paused |-> FALSE, sync |-> TRUE,
             plain |-> TRUE, quiet |-> TRUE, again |-> FALSE, nth |-> 0]
  /\ steps = 0
  /\ limit = MaxReplaySteps

NextReplay ==
  \/ Pause
  \/ Merge
  \/ MergeEntries
  \/ Inc
  \/ Resume
  \/ Deliver

SpecReplay == InitReplay /\ [][NextReplay]_vars

\* the calls of a behaviour that pauses, mutates and flushes by hand
MaxFlushSteps == 4

InitFlush ==
  /\ A = Conjured
  /\ B = Conjured
  /\ queue = <<>>
  /\ last = [op |-> "conjure", id |-> Root, paused |-> FALSE, sync |-> TRUE,
             plain |-> TRUE, quiet |-> TRUE, again |-> FALSE, nth |-> 0]
  /\ steps = 0
  /\ limit = MaxFlushSteps

NextFlush ==
  \/ Pause
  \/ Inc
  \/ Push
  \/ Del
  \/ Notify
  \/ Resume
  \/ Deliver

SpecFlush == InitFlush /\ [][NextFlush]_vars

(***************************************************************************)
(* Properties.                                                             *)
(***************************************************************************)
\* the step is a call of a method of A
IsCall == steps' = steps + 1

\* the replica has consumed every record A's root has emitted
Settled == queue = <<>>

\* C1: whenever A has only been mutated, paused and resumed, no call raised,
\* A is not paused and B has consumed every diff record A's root emitted, in
\* emission order, B.valueOf() equals A.valueOf().
RoundTrip ==
  (Settled /\ last.plain /\ ~Paused(A, Root)) => valueOf(B, Root) = valueOf(A, Root)

\* C2: when A has never been paused and the replica had A's value before a
\* mutation, it has A's value again once it has consumed the records A's
\* root emitted for that mutation.
StepwiseSync ==
  (Settled /\ last.quiet /\ last.sync) => valueOf(B, Root) = valueOf(A, Root)

\* the methods of an array node that C3 and C4 are about
ArrayOps ==
  {"push", "pop", "splice", "shift", "unshift", "reverse", "sort", "rename", "del", "set"}

Arrays(T) == OfType(T, "array")

\* every element of the backing sequence records its position as its key
KeysInOrder(T, id) ==
  \A i \in 1..Len(T.nodes[id].arr) :
     /\ T.nodes[id].arr[i] # 0
     /\ T.nodes[T.nodes[id].arr[i]].key = IndexKey(i - 1)

\* C3: a push, pop, splice, shift, unshift, reverse, sort, rename, del or
\* index set that returns, on an array whose elements all record their
\* position as their key, leaves an array whose elements all do.
ArrayKeyInvariant ==
  [][(/\ IsCall
      /\ last'.op \in ArrayOps
      /\ last'.id \in Arrays(A) \cap Arrays(A')
      /\ Ok(A')
      /\ KeysInOrder(A, last'.id)) => KeysInOrder(A', last'.id)]_vars

\* the indexed references are those of the positions below the length, each
\* the element of the backing sequence at its position, and the length is
\* that of the backing sequence
Exposed(T, id) ==
  /\ T.nodes[id].length = Len(T.nodes[id].arr)
  /\ \A i \in 1..Len(T.nodes[id].arr) :
        /\ hasOwnProperty(T, id, IndexKey(i - 1))
        /\ Get(T, id, IndexKey(i - 1)) = T.nodes[id].arr[i]
        /\ T.nodes[id].arr[i] # 0
  /\ \A k \in IndexKeys : hasOwnProperty(T, id, k) => IndexOf(k) < T.nodes[id].length

\* C4: an array operation that returns, on an array that exposes its
\* elements, leaves an array that exposes its elements.
ArrayIndexExposure ==
  [][(/\ IsCall
      /\ last'.op \in ArrayOps
      /\ last'.id \in Arrays(A) \cap Arrays(A')
      /\ Ok(A')
      /\ Exposed(A, last'.id)) => Exposed(A', last'.id)]_vars

Aggregate == {"signal", "change", "diff"}
Structural == {"add", "del", "rename", "destroy"}

\* how many events ev the node id emitted during the call
Emitted(T, id, ev) ==
  Cardinality({i \in 1..Len(T.log) : T.log[i].tome = id /\ T.log[i].ev = ev})

\* the nodes that emitted an aggregate event during the call
Emitters(T) == {T.log[i].tome : i \in {j \in 1..Len(T.log) : T.log[j].ev \in Aggregate}}

RECURSIVE Ancestors(_, _)
Ancestors(T, id) ==
  IF T.nodes[id].parent = 0 THEN {}
  ELSE {T.nodes[id].parent} \cup Ancestors(T, T.nodes[id].parent)

\* the nodes that hold a pending diff
Pending(T) == {id \in 1..Len(T.nodes) : T.nodes[id].diff # Undef}

\* every node that emitted an aggregate event emitted signal, change and
\* diff once each, and so did each of its ancestors
OnceUpward(T) ==
  \A id \in Emitters(T) :
     /\ \A ev \in Aggregate : Emitted(T, id, ev) = 1
     /\ Ancestors(T, id) \subseteq Emitters(T)

\* C5: a resume that ends a batch makes the live nodes mutated during the
\* batch and their ancestors, and no other node, emit signal, change and diff
\* once each; a single mutation of an unpaused tree makes the mutated node
\* and each of its ancestors emit them once each.
AggregateEvents ==
  [][IsCall =>
       /\ (last'.op = "resume" /\ Paused(A, Root) /\ Ok(A')) =>
             (OnceUpward(A') /\ Emitters(A') = Pending(A) \cap Live(A))
       /\ (last'.op \in Mutations /\ ~Paused(A, Root) /\ Ok(A')) => OnceUpward(A')]_vars

\* the buffered events of a kind, in buffering order
BufferedOf(T, kind) ==
  LET q == T.nodes[Root].buffer.q
  IN IF HasKind(q, kind) THEN (CHOOSE e \in {q[i] : i \in 1..Len(q)} : e.kind = kind).ops
     ELSE <<>>

\* the event a buffered event is delivered as
Delivered(T, kind, op) ==
  Event(op.tome, kind, op.key, op.newKey,
        IF kind = "add" THEN ValueAt(T, op.tome, op.key) ELSE Undef)

RECURSIVE Replayed(_, _)
\* the buffered events kind by kind, in the order kinds gives the kinds
Replayed(T, kinds) ==
  IF kinds = <<>> THEN <<>>
  ELSE [i \in 1..Len(BufferedOf(T, Head(kinds))) |->
          Delivered(T, Head(kinds), BufferedOf(T, Head(kinds))[i])]
       \o Replayed(T, Tail(kinds))

\* the events of one notify walk from the root of the tree with its buffer
\* cleared
Walk(T) == notify(Begin(unbuffer(T, Root)), Root).log

\* the kinds of the buffer in the order in which an event of the kind was
\* first buffered
KindsAsBuffered(T) ==
  [i \in 1..Len(T.nodes[Root].buffer.q) |-> T.nodes[Root].buffer.q[i].kind]

\* a resume of a paused tree delivered the buffered events in the order
\* kinds of their kinds, cleared the buffer and ran one notify walk
FlushedBy(T, U, kinds) ==
  /\ U.log = Replayed(T, kinds) \o Walk(T)
  /\ U.nodes[Root].buffer = NoBuffer

\* C6 as stated: resume() on a paused tree delivers the buffered add events,
\* then the del events, then the rename events, then the destroy events,
\* then clears the buffer and runs one notify walk from the root.
ResumeFixedOrder ==
  [][(IsCall /\ last'.op = "resume" /\ Paused(A, Root)) =>
       FlushedBy(A, A', <<"add", "del", "rename", "destroy">>)]_vars

\* C6 amended: resume() on a paused tree delivers the buffered events
\* grouped by kind, the kinds in the order in which each kind was first
\* buffered and the events of a kind in buffering order, then clears the
\* buffer and runs one notify walk from the root.
ResumeBufferOrder ==
  [][(IsCall /\ last'.op = "resume" /\ Paused(A, Root)) =>
       FlushedBy(A, A', KindsAsBuffered(A))]_vars

\* a resume has delivered a destroy event before a del event
ResumeBufferOrderWitness ==
  /\ last.op = "resume"
  /\ last.paused
  /\ \E i, j \in 1..Len(A.log) :
        i < j /\ A.log[i].ev = "destroy" /\ A.log[j].ev = "del"

\* nothing is buffered or pending on a tree that is not paused
Drained(T) ==
  /\ ~Paused(T, Root)
  /\ T.nodes[Root].buffer.q = <<>>
  /\ Pending(T) \cap Live(T) = {}

\* C7: a mutation or a merge of a paused tree delivers no event, and the
\* resume that ends the pause leaves nothing buffered and nothing pending.
NoPartialBatch ==
  [][(IsCall /\ Paused(A, Root)) =>
       /\ last'.op \in Mutations \cup {"merge", "pause"} => A'.log = <<>>
       /\ last'.op = "resume" => Drained(A')]_vars

\* a mutation of a paused tree has buffered an event and left a pending diff
NoPartialBatchWitness ==
  /\ last.paused
  /\ last.op \in Mutations
  /\ Ok(A)
  /\ A.nodes[Root].buffer.q # <<>>
  /\ A.nodes[Root].diff # Undef
  /\ A.log = <<>>

\* the call left the nodes and the shared arrays as they were
Untouched(T, U) == U.nodes = T.nodes /\ U.heap = T.heap

\* C8: only a paused tree holds buffered events; pause() on an unpaused tree
\* creates an empty buffer and returns false; pause() on a paused tree
\* returns true and changes nothing; resume() on an unpaused tree returns
\* false and emits nothing; resume() on a paused tree returns true and
\* leaves the tree unpaused.
PauseProtocol ==
  [][IsCall =>
       /\ A'.nodes[Root].buffer.q # <<>> => Paused(A', Root)
       /\ (last'.op = "pause" /\ ~Paused(A, Root)) =>
             /\ A'.ret = Bool(FALSE)
             /\ A'.nodes = [A.nodes EXCEPT ![Root].buffer = [on |-> TRUE, q |-> <<>>]]
       /\ (last'.op = "pause" /\ Paused(A, Root)) =>
             (A'.ret = Bool(TRUE) /\ Untouched(A, A'))
       /\ (last'.op = "resume" /\ ~Paused(A, Root)) =>
             (A'.ret = Bool(FALSE) /\ A'.log = <<>> /\ Untouched(A, A'))
       /\ (last'.op = "resume" /\ Paused(A, Root)) =>
             (A'.ret = Bool(TRUE) /\ ~Paused(A', Root))]_vars

\* pause() was called on a paused tree that holds buffered events and
\* pending diffs
PauseProtocolWitness ==
  /\ last.op = "pause"
  /\ last.paused
  /\ A.ret = Bool(TRUE)
  /\ A.nodes[Root].buffer.q # <<>>
  /\ A.nodes[Root].diff # Undef

\* C9: after consume(...) or a list-form rename(...) of an object on a tree
\* that was not paused, whether it returned or raised, the tree is not
\* paused and nothing is left buffered or pending.
PauseDrained ==
  (last.op \in {"consume", "renameList"} /\ ~last.paused) => Drained(A)

\* C10: notify() on a node with a pending diff emits signal, change and
\* diff once on it and leaves no pending diff on it or below it; a second
\* notify() on the node right after the first emits nothing and changes
\* nothing.
FlushIdempotent ==
  [][(IsCall /\ last'.op = "notify") =>
       /\ last'.id \in Pending(A) =>
             /\ \A ev \in Aggregate : Emitted(A', last'.id, ev) = 1
             /\ Pending(A') \cap Reach(A, last'.id) = {}
       /\ (last.op = "notify" /\ last.id = last'.id) =>
             (A'.log = <<>> /\ Untouched(A, A'))]_vars

\* a second notify() has followed one that emitted
FlushIdempotentWitness ==
  /\ last.op = "notify"
  /\ last.again
  /\ A.log = <<>>

\* the entry of the pending diff of a node under a name, as a listener of
\* the diff event reads it
Entry(T, id, k) == Deref(T.heap, Lookup(Record(T, id), k))

\* the call is the n-th in a row to record the operation k with payload v on
\* the node: its entry is v when n = 1, the list of the entry of the first
\* call and v when n = 2, and the list of before with v appended after that
Accumulated(id, k, v) ==
  CASE last'.nth = 1 -> Entry(A', id, k) = v
    [] last'.nth = 2 -> Entry(A', id, k) = Arr(<<Entry(A, id, k), v>>)
    [] last'.nth > 2 -> Entry(A', id, k) = Arr(Append(Entry(A, id, k).a, v))
    [] OTHER -> TRUE

\* C11: while the tree is paused, the n-th call in a row of inc on a number,
\* push or splice on an array or del on an object leaves under the operation's name the payload itself when
\* n = 1 and the list of the n payloads in call order when n >= 2.
DiffAccumulation ==
  [][IsCall =>
       /\ \A n \in IncAmounts \ {Undef} :
            (last'.op = "inc" /\ A' = inc(Begin(A), last'.id, n)) =>
               Accumulated(last'.id, "inc", n)
       /\ \A args \in Items :
            (last'.op = "push" /\ A' = ArrayTome_push(Begin(A), last'.id, args)) =>
               Accumulated(last'.id, "push", Arr(args))
       /\ \A s \in Splices :
            (last'.op = "splice"
               /\ A' = ArrayTome_splice(Begin(A), last'.id, s[1], s[2], s[3])) =>
               Accumulated(last'.id, "splice",
                           Arr(<<Num(SpliceIndex(s[1], Length(A, last'.id))), Num(s[2])>>
                               \o s[3]))
       /\ \A key \in NameKeys :
            (last'.op = "del" /\ last'.id \in OfType(A, "object")
               /\ A' = del(Begin(A), last'.id, key)) =>
               Accumulated(last'.id, "del", Str(key))]_vars

\* the record a node emitted with its diff event during the call
DiffArg(T, id) ==
  T.log[CHOOSE i \in 1..Len(T.log) : T.log[i].tome = id /\ T.log[i].ev = "diff"].arg

\* a record with one entry, the operation and its payload
OneOperation(d) == d.t = "object" /\ Len(d.o) = 1 /\ ~IsChildKey(d.o[1].k)

\* the record of a node is the record of its child under '_' and the key
\* under which the node reaches the child
NestedUnder(T, p, c) ==
  \E k \in KeyUniverse :
     /\ hasOwnProperty(T, p, k)
     /\ Get(T, p, k) = c
     /\ DiffArg(T, p) = Obj(<<KV(ChildKey(k), DiffArg(T, c))>>)

\* C12: a mutation of an unpaused tree that makes each node of a path emit
\* one diff event gives the deepest of them the record {op: v} and each
\* node above it that record nested under '_' and the key under which the
\* node reaches its child on the path, up to the root.
DiffNesting ==
  [][(IsCall /\ last'.op \in Mutations \ {"renameList"} /\ ~Paused(A, Root) /\ Ok(A')
        /\ OnceUpward(A')) =>
       \A x \in Emitters(A') :
          /\ A'.nodes[x].parent # 0 => NestedUnder(A', A'.nodes[x].parent, x)
          /\ (\A c \in Emitters(A') : A'.nodes[c].parent # x) => OneOperation(DiffArg(A', x))]_vars

\* where in the events of the call the node emitted ev, 0 when it did not
At(T, id, ev) ==
  IF Emitted(T, id, ev) = 0 THEN 0
  ELSE CHOOSE i \in 1..Len(T.log) : T.log[i].tome = id /\ T.log[i].ev = ev

\* every node of the subtree of c emitted destroy once, a child before its
\* parent, and all of them before position n of the events of the call
DestroyedBefore(T, U, c, n) ==
  \A x \in Reach(T, c) :
     /\ Emitted(U, x, "destroy") = 1
     /\ At(U, x, "destroy") < n
     /\ (x # c) => At(U, x, "destroy") < At(U, T.nodes[x].parent, "destroy")

\* the key of del as the caller of the method of the node gives it
KeyArg(T, id, key) == IF T.nodes[id].type = "array" THEN Num(IndexOf(key)) ELSE Str(key)

\* the children but the one at key are the nodes they were, with the values
\* they had
OthersKept(T, U, id, key) ==
  \A k \in KeyUniverse \ {key} :
     /\ hasOwnProperty(U, id, k) = hasOwnProperty(T, id, k)
     /\ Get(U, id, k) = Get(T, id, k)
     /\ Get(T, id, k) # 0 => valueOf(U, Get(T, id, k)) = valueOf(T, Get(T, id, k))

\* C13: del(key) on an object or an array of an unpaused tree, key holding a
\* child: the child is no longer reachable from the node, every node of its
\* subtree has emitted destroy, children before their parent, then the node
\* has emitted del(key) and the record {del: key}; the other children are
\* unchanged.
DelDestroys ==
  [][\A key \in KeyUniverse :
       (/\ IsCall
        /\ last'.op = "del"
        /\ ~Paused(A, Root)
        /\ Get(A, last'.id, key) # 0
        /\ A' = del(Begin(A), last'.id, key)) =>
          /\ Ok(A')
          /\ Get(A, last'.id, key) \notin Reach(A', last'.id)
          /\ Emitted(A', last'.id, "del") = 1
          /\ A'.log[At(A', last'.id, "del")].key = key
          /\ DestroyedBefore(A, A', Get(A, last'.id, key), At(A', last'.id, "del"))
          /\ Emitted(A', last'.id, "diff") = 1
          /\ At(A', last'.id, "del") < At(A', last'.id, "diff")
          /\ DiffArg(A', last'.id) = Obj(<<KV("del", KeyArg(A, last'.id, key))>>)
          /\ OthersKept(A, A', last'.id, key)]_vars

\* C14: del(key) raises UndefinedKey when key is no own key of the node and
\* NotAChild when the key holds no node; the nodes, their versions, their
\* pending diffs and the buffer are then as before the call and no event
\* has been emitted.
DelRejects ==
  [][\A key \in KeyUniverse :
       (/\ IsCall
        /\ last'.op = "del"
        /\ Get(A, last'.id, key) = 0
        /\ A' = del(Begin(A), last'.id, key)) =>
          /\ A'.err = IF hasOwnProperty(A, last'.id, key) THEN "NotAChild" ELSE "UndefinedKey"
          /\ A'.log = <<>>
          /\ Untouched(A, A')]_vars

\* del has been refused on a paused tree for a key that holds no node, the
\* root holding a pending diff
DelRejectsWitness ==
  /\ last.op = "del"
  /\ last.paused
  /\ A.err = "NotAChild"
  /\ A.nodes[Root].diff # Undef

\* how many events ev with the key the node has emitted during the call or
\* holds in the buffer
Produced(T, id, ev, key) ==
  Cardinality({i \in 1..Len(T.log) :
                 T.log[i].tome = id /\ T.log[i].ev = ev /\ T.log[i].key = key})
  + Cardinality({i \in 1..Len(BufferedOf(T, ev)) :
                   BufferedOf(T, ev)[i].tome = id /\ BufferedOf(T, ev)[i].key = key})

\* the record of the call on the node: the one it emitted, or on a paused
\* tree the pending one
Recorded(T, id) ==
  IF Emitted(T, id, "diff") = 0 THEN Deref(T.heap, T.nodes[id].diff) ELSE DiffArg(T, id)

\* C15: set(key, value) on an object, value not undefined: the key then holds a
\* child whose value is value, the other keys are unchanged, one add(key)
\* event has been produced when key was no own key and none when it was,
\* and a new key is recorded as the set entry {key: value}.
SetOnObject ==
  [][\A key \in NameKeys, val \in SetValues \ {Undef} :
       (/\ IsCall
        /\ last'.op = "set"
        /\ last'.id \in OfType(A, "object")
        /\ A' = set(Begin(A), last'.id, key, val)) =>
          /\ Ok(A')
          /\ Get(A', last'.id, key) # 0
          /\ valueOf(A', Get(A', last'.id, key)) = val
          /\ OthersKept(A, A', last'.id, key)
          /\ Produced(A', last'.id, "add", key) =
                Produced(Begin(A), last'.id, "add", key)
                + (IF hasOwnProperty(A, last'.id, key) THEN 0 ELSE 1)
          /\ (~hasOwnProperty(A, last'.id, key) /\ A.nodes[last'.id].diff = Undef) =>
                Recorded(A', last'.id) = Obj(<<KV("set", Obj(<<KV(key, val)>>))>>)]_vars

\* set has given the key a, whose first child is gone, a new child on a
\* paused tree
SetOnObjectWitness ==
  /\ last.op = "set"
  /\ last.paused
  /\ Ok(A)
  /\ Get(A, Root, "a") # 0
  /\ A.nodes[Get(A, Root, "a")].ver = 1
  /\ Get(A, Root, "a") # Get(Conjured, Root, "a")

\* the call is set(key, undefined) on an object whose key holds a child
SetsAbsent(key) ==
  /\ IsCall
  /\ last'.op = "set"
  /\ last'.id \in OfType(A, "object")
  /\ Get(A, last'.id, key) # 0
  /\ A' = set(Begin(A), last'.id, key, Undef)

NoStructuralEvent(T, U) ==
  /\ \A i \in 1..Len(U.log) : U.log[i].ev \in Aggregate
  /\ U.nodes[Root].buffer = T.nodes[Root].buffer

Children(T, id) ==
  ({T.nodes[id].props[i].v : i \in 1..Len(T.nodes[id].props)}
     \cup {T.nodes[id].arr[i] : i \in 1..Len(T.nodes[id].arr)}) \ {0}

RECURSIVE Below(_, _)
\* the nodes below a node
Below(T, id) == Children(T, id) \cup UNION {Below(T, c) : c \in Children(T, id)}

\* the call has destroyed what was below the node before it gave the node
\* its new content: every node that was below it emitted destroy once,
\* before any add event of the call, and is no longer below it
Replaced(T, U, id) ==
  \A c \in Below(T, id) :
     /\ Emitted(U, c, "destroy") = 1
     /\ \A i \in 1..Len(U.log) : U.log[i].ev = "add" => At(U, c, "destroy") < i
     /\ c \notin Below(U, id)

\* C17: on an unpaused tree an assign that returns, to or from an array or
\* an object, and a set that makes an array an object, destroy every node
\* below the node before the node gets its new content; no former child is
\* below the node afterwards, and after the assign the value of the node is
\* the value assigned.
TypeTransition ==
  [][(IsCall /\ ~Paused(A, Root)) =>
       /\ \A val \in AssignValues :
            (/\ last'.op = "assign"
             /\ A' = assign(Begin(A), last'.id, val)
             /\ Ok(A')
             /\ isContainer(typeOf(val)) \/ isContainer(A.nodes[last'.id].type)) =>
               (Replaced(A, A', last'.id) /\ valueOf(A', last'.id) = val)
       /\ (/\ last'.op = "set"
           /\ last'.id \in OfType(A, "array")
           /\ A'.nodes[last'.id].type = "object"
           /\ Ok(A')) => Replaced(A, A', last'.id)]_vars

\* C18: an assign that raises leaves every node as it was (variant, payload,
\* children, version, pending diff, and the buffer of the root) and has
\* emitted no del and no destroy event.
AssignRejects ==
  [][\A val \in AssignValues \cup RefusedValues :
       (/\ IsCall
        /\ last'.op = "assign"
        /\ A' = assign(Begin(A), last'.id, val)
        /\ ~Ok(A')) =>
          /\ A'.nodes = A.nodes
          /\ \A i \in 1..Len(A'.log) : A'.log[i].ev \notin {"del", "destroy"}]_vars

\* C19: a merge that raises raises UnknownOperation or UndefinedChild and
\* has applied no entry of the record: the nodes, their values, versions and
\* pending diffs are as before the call.
MergeClean ==
  [][\A d \in Records \cup RefusedRecords :
       (/\ IsCall
        /\ last'.op = "merge"
        /\ A' = merge(Begin(A), last'.id, d)
        /\ ~Ok(A')) =>
          /\ A'.err \in {"UnknownOperation", "UndefinedChild"}
          /\ Untouched(A, A')]_vars

\* the diff events of the call by which the node recorded the one entry op: v
RecordedAs(T, id, op, v) ==
  {i \in 1..Len(T.log) : /\ T.log[i].tome = id
                         /\ T.log[i].ev = "diff"
                         /\ Deref(T.heap, T.log[i].arg) = Obj(<<KV(op, v)>>)}

\* rename of { o, n } on an object: UndefinedKey when o is no own key; when
\* the call returns, n holds the node o held, its key is n, o is no key, one
\* rename(o, n) is produced, and on an unpaused tree the subtree n held
\* emitted destroy before the rename event and one record { rename: { o, n } }
\* is emitted
RenamedPair(T, U, id, o, n) ==
  IF ~hasOwnProperty(T, id, o) THEN U.err = "UndefinedKey"
  ELSE Ok(U) =>
       /\ Get(U, id, n) = Get(T, id, o)
       /\ Get(U, id, n) # 0
       /\ U.nodes[Get(U, id, n)].key = n
       /\ ~hasOwnProperty(U, id, o)
       /\ Produced(U, id, "rename", o) = Produced(T, id, "rename", o) + 1
       /\ ~Paused(T, Root) =>
            /\ Emitted(U, id, "rename") = 1
            /\ U.log[At(U, id, "rename")].key = o
            /\ U.log[At(U, id, "rename")].newKey = n
            /\ Get(T, id, n) # 0 =>
                 DestroyedBefore(T, U, Get(T, id, n), At(U, id, "rename"))
            /\ Cardinality(RecordedAs(U, id, "rename", ON(Str(o), Str(n)))) = 1

\* rename of a list of pairs on an object: a paused tree stays paused and
\* delivers nothing; an unpaused tree is unpaused again when the call ends,
\* and when the call returns its root has emitted one signal, which carries
\* the value the tree has with every pair applied
RenamedBatch(T, U) ==
  IF Paused(T, Root) THEN Paused(U, Root) /\ U.log = <<>>
  ELSE /\ ~Paused(U, Root)
       /\ Ok(U) =>
            /\ Emitted(U, Root, "signal") = 1
            /\ U.log[At(U, Root, "signal")].arg = valueOf(U, Root)

\* C20: rename of { o, n } on an object raises UndefinedKey unless o is an
\* own key; on success the node formerly at o is at n with key n, o is no
\* longer a key, a node previously at n was destroyed before the move, and
\* one rename(o, n) event and one rename diff entry are produced; a list of
\* pairs is applied inside one pause, no event being delivered before every
\* pair is applied, and the tree is resumed once.
ObjectRename ==
  [][/\ \A val \in ObjectRenames :
          (IsCall /\ last'.op = "rename" /\ last'.id \in OfType(A, "object")
             /\ A' = rename(Begin(A), last'.id, val))
          => RenamedPair(Begin(A), A', last'.id, Field(val, "o").s, Field(val, "n").s)
     /\ \A val \in ObjectRenameLists :
          (IsCall /\ last'.op = "renameList"
             /\ A' = rename(Begin(A), last'.id, val))
          => RenamedBatch(A, A')]_vars

\* the single pair alone
ObjectRenamePair ==
  [][\A val \in ObjectRenames :
        (IsCall /\ last'.op = "rename" /\ last'.id \in OfType(A, "object")
           /\ A' = rename(Begin(A), last'.id, val))
        => RenamedPair(Begin(A), A', last'.id, Field(val, "o").s, Field(val, "n").s)]_vars


\* how many events ev the node has emitted in the call or has in the buffer
Made(T, id, ev) ==
  Cardinality({i \in 1..Len(T.log) : T.log[i].tome = id /\ T.log[i].ev = ev})
  + Cardinality({i \in 1..Len(BufferedOf(T, ev)) : BufferedOf(T, ev)[i].tome = id})

\* the nodes the call destroyed, and whether each of them was destroyed once
Destroyed(T, U) ==
  {x \in 1..Len(T.nodes) : Made(U, x, "destroy") > Made(T, x, "destroy")}
DestroyedOnce(T, U) ==
  \A x \in Destroyed(T, U) : Made(U, x, "destroy") = Made(T, x, "destroy") + 1

\* the nodes of the elements i + 1 .. i + n of the array, with what is below
Elements(T, id, i, n) ==
  UNION {Reach(T, T.nodes[id].arr[j]) :
           j \in {k \in (i + 1)..(i + n) : T.nodes[id].arr[k] # 0}}

\* the reference splice of a sequence: start is clamped into 0..Len(s) and
\* the count into what is left after it
RefStart(s, start) ==
  IF start < 0 THEN (IF Len(s) + start < 0 THEN 0 ELSE Len(s) + start)
  ELSE IF start > Len(s) THEN Len(s) ELSE start
RefCount(s, start, count) ==
  IF count < 0 THEN 0
  ELSE IF count > Len(s) - RefStart(s, start) THEN Len(s) - RefStart(s, start)
  ELSE count
RefSplice(s, start, count, items) ==
  SubSeq(s, 1, RefStart(s, start)) \o items
    \o SubSeq(s, RefStart(s, start) + RefCount(s, start, count) + 1, Len(s))

\* the entry op of the record of the call on the node: of the record it
\* emitted, or on a paused tree of the pending one
RecordedEntry(T, id, op) ==
  IF Emitted(T, id, "diff") > 0 THEN Deref(T.heap, Field(DiffArg(T, id), op))
  ELSE IF HasKey(Record(T, id), op) THEN Entry(T, id, op)
  ELSE Undef

\* what splice(start, count, items) has made of the array id of T in U
Spliced(T, U, id, start, count, items) ==
  LET s == valueOf(T, id).a
      at == RefStart(s, start)
      n == RefCount(s, start, count)
  IN /\ Ok(U)
     /\ valueOf(U, id) = Arr(RefSplice(s, start, count, items))
     /\ Destroyed(T, U) = Elements(T, id, at, n)
     /\ DestroyedOnce(T, U)
     /\ Made(U, id, "del") = Made(T, id, "del") + n
     /\ \A i \in 0..(n - 1) :
          Produced(U, id, "del", IndexKey(at + i))
            = Produced(T, id, "del", IndexKey(at + i)) + 1
     /\ Made(U, id, "add") = Made(T, id, "add") + Len(items)
     /\ \A i \in 1..Len(items) :
          /\ U.nodes[id].arr[at + i] > Len(T.nodes)
          /\ Get(U, id, IndexKey(at + i - 1)) = U.nodes[id].arr[at + i]
          /\ Produced(U, id, "add", IndexKey(at + i - 1))
               = Produced(T, id, "add", IndexKey(at + i - 1)) + 1
     /\ (n + Len(items) > 0 /\ (last'.nth = 1 \/ ~Paused(T, Root))) =>
          /\ RecordedEntry(U, id, "splice") = Arr(<<Num(at), Num(count)>> \o items)
          /\ valueOf(merge(T, id, Obj(<<KV("splice", RecordedEntry(U, id, "splice"))>>)), id)
               = valueOf(U, id)

\* C21: splice(start, deleteCount, items...) clamps start into [0, L], makes
\* the values of the array the reference splice of its values, destroys the
\* removed elements and no other node with one del each, conjures the items
\* at start with one add each, and a call that removes or inserts records the
\* one entry splice: [clamped start, deleteCount, items...], whose replay on
\* the array as it was gives the same values.
SpliceContract ==
  [][\A s \in Splices :
        (IsCall /\ last'.op = "splice"
           /\ A' = ArrayTome_splice(Begin(A), last'.id, s[1], s[2], s[3]))
        => Spliced(Begin(A), A', last'.id, s[1], s[2], s[3])]_vars


\* the call is the first to record its operation on the node since the
\* pending record of the node was last emitted
FirstRecord(T) == last'.nth = 1 \/ ~Paused(T, Root)

\* the elements at + 1 .. at + Len(items) of the array are new nodes, exposed
\* under their indices, each announced by one add
Conjures(T, U, id, at, items) ==
  /\ Made(U, id, "add") = Made(T, id, "add") + Len(items)
  /\ \A i \in 1..Len(items) :
       /\ U.nodes[id].arr[at + i] > Len(T.nodes)
       /\ Get(U, id, IndexKey(at + i - 1)) = U.nodes[id].arr[at + i]
       /\ valueOf(U, U.nodes[id].arr[at + i]) = items[i]
       /\ Produced(U, id, "add", IndexKey(at + i - 1))
            = Produced(T, id, "add", IndexKey(at + i - 1)) + 1

\* push or unshift of items: the values are the reference ones, nothing is
\* destroyed, the items are conjured and the entry op: items is recorded
Inserted(T, U, id, op, at, vals, items) ==
  /\ Ok(U)
  /\ valueOf(U, id) = Arr(vals)
  /\ Destroyed(T, U) = {}
  /\ Made(U, id, "del") = Made(T, id, "del")
  /\ Conjures(T, U, id, at, items)
  /\ FirstRecord(T) => RecordedEntry(U, id, op) = Arr(items)

\* pop or shift: on an empty array nothing changes and nothing is emitted or
\* recorded; else the values are the reference ones, the element that was at
\* position at + 1 is destroyed, it alone, and the entry op: 1 is recorded
Removed(T, U, id, op, at, vals) ==
  IF T.nodes[id].arr = <<>>
  THEN U.nodes = T.nodes /\ U.heap = T.heap /\ U.log = <<>> /\ Ok(U)
  ELSE /\ Ok(U)
       /\ valueOf(U, id) = Arr(vals)
       /\ Destroyed(T, U) = Elements(T, id, at, 1)
       /\ DestroyedOnce(T, U)
       /\ Made(U, id, "add") = Made(T, id, "add")
       /\ Made(U, id, "del") = Made(T, id, "del") + 1
       /\ FirstRecord(T) => RecordedEntry(U, id, op) = Num(1)

\* C22: push, pop, shift and unshift make the values of the array what the
\* reference operation makes of them; a call that adds conjures the added
\* elements and records push or unshift with the values in argument order, a
\* call that removes destroys the removed element and it alone and records
\* pop: 1 or shift: 1; pop or shift on an empty array changes and records
\* nothing.
EndOperations ==
  [][/\ \A args \in Items :
          /\ (IsCall /\ last'.op = "push"
                /\ A' = ArrayTome_push(Begin(A), last'.id, args))
             => Inserted(Begin(A), A', last'.id, "push", Length(A, last'.id),
                         valueOf(A, last'.id).a \o args, args)
          /\ (IsCall /\ last'.op = "unshift"
                /\ A' = ArrayTome_unshift(Begin(A), last'.id, args))
             => Inserted(Begin(A), A', last'.id, "unshift", 0,
                         args \o valueOf(A, last'.id).a, args)
     /\ (IsCall /\ last'.op = "pop")
          => Removed(Begin(A), A', last'.id, "pop", Length(A, last'.id) - 1,
                     SubSeq(valueOf(A, last'.id).a, 1, Length(A, last'.id) - 1))
     /\ (IsCall /\ last'.op = "shift")
          => Removed(Begin(A), A', last'.id, "shift", 0,
                     SubSeq(valueOf(A, last'.id).a, 2, Length(A, last'.id)))]_vars


\* n absent values
Absent(n) == [i \in 1..n |-> Undef]

\* set(k, val) on the array id of T, which has made U of it: past the end
\* the array grows to k + 1 values, absent between the old end and k, with
\* one add per new position and the entry set: {k: val}; below the end the
\* element at k represents val
SetAtIndex(T, U, id, k, val) ==
  LET s == valueOf(T, id).a IN
  IF k >= Len(s)
  THEN /\ Ok(U)
       /\ Len(U.nodes[id].arr) = k + 1
       /\ valueOf(U, id) = Arr(s \o Absent(k - Len(s)) \o <<val>>)
       /\ Made(U, id, "add") = Made(T, id, "add") + (k - Len(s) + 1)
       /\ \A i \in Len(s)..k :
            Produced(U, id, "add", IndexKey(i)) = Produced(T, id, "add", IndexKey(i)) + 1
       /\ FirstRecord(T) =>
            RecordedEntry(U, id, "set") = Obj(<<KV(IndexKey(k), val)>>)
  ELSE /\ Ok(U)
       /\ valueOf(U, id).a[k + 1] = val

\* C23: set(k, value) on an array of length L with k >= L makes the length
\* k + 1, stores value at k and an absent element at L..k-1, produces one add
\* per new position and records the one entry set: {k: value}; set(i, value)
\* on a position below the length, a back-filled one included, makes element
\* i represent value.
ArrayBackFill ==
  [][\A key \in IndexKeys, val \in {Num(5)} :
        (IsCall /\ last'.op = "set" /\ last'.id \in OfType(A, "array")
           /\ A' = set(Begin(A), last'.id, key, val))
        => SetAtIndex(Begin(A), A', last'.id, IndexOf(key), val)]_vars


\* the amount inc adds for an argument
Amount(val) == IF val = Undef THEN 1 ELSE val.n

\* inc(val) on the number id of T, which has made U of it
Incremented(T, U, id, val) ==
  IF val # Undef /\ val.t # "number"
  THEN U.err = "NotANumber" /\ U.nodes = T.nodes /\ U.log = <<>>
  ELSE IF Amount(val) = 0
  THEN Ok(U) /\ U.nodes = T.nodes /\ U.log = <<>>
  ELSE /\ Ok(U)
       /\ valueOf(U, id) = Num(valueOf(T, id).n + Amount(val))
       /\ ~Paused(T, Root) =>
            /\ Emitted(U, id, "diff") = 1
            /\ Deref(U.heap, DiffArg(U, id)) = Obj(<<KV("inc", Num(Amount(val)))>>)
       /\ (Paused(T, Root) /\ last'.nth = 1) =>
            /\ Entry(U, id, "inc") = Num(Amount(val))
            /\ Remove(Record(U, id), "inc") = Record(T, id)

\* C24: inc(amount) on a number, amount being 1 when it is not given, makes
\* the value old + amount and records the one entry inc: amount and no assign
\* entry; inc(0) changes nothing and records nothing; an amount that is no
\* number raises NotANumber and leaves value, version and pending record as
\* they were.
IncContract ==
  [][\A val \in IncAmounts \cup OtherAmounts :
        (IsCall /\ last'.op = "inc" /\ last'.id \in OfType(A, "number")
           /\ A' = inc(Begin(A), last'.id, val))
        => Incremented(Begin(A), A', last'.id, val)]_vars

\* a refused inc after one that added 5 to a
IncContractWitness ==
  /\ last.op = "inc"
  /\ last.id = 2
  /\ A.err = "NotANumber"
  /\ valueOf(A, 2) = Num(6)
  /\ Paused(A, Root)
  /\ HasKey(Record(A, 2), "inc")


\* the version of every node of T is the one it has in U
SameVersions(T, U) ==
  \A id \in 1..Len(T.nodes) : U.nodes[id].ver = T.nodes[id].ver

\* no version of T is lower in U, and the nodes U has more start at 1 or
\* above
NoVersionLost(T, U) ==
  /\ \A id \in 1..Len(T.nodes) : U.nodes[id].ver >= T.nodes[id].ver
  /\ \A id \in (Len(T.nodes) + 1)..Len(U.nodes) : U.nodes[id].ver >= 1

\* every node the caller reaches before and after the call whose value the
\* call changed has a higher version
ChangesCounted(T, U) ==
  \A id \in Live(T) \cap Live(U) :
     valueOf(U, id) # valueOf(T, id) => U.nodes[id].ver > T.nodes[id].ver

\* C25: the version of a node starts at 1 and never decreases; a mutation
\* that changes the value of a node, and so of its ancestors, raises the
\* version of each of them when it returns, shift, pop and splice on arrays
\* with absent elements included; an assign of the scalar a node holds and
\* an inc that leaves the value as it was change no version.
VersionMonotone ==
  [][/\ NoVersionLost(A, A')
     /\ (IsCall /\ last'.op \in Mutations /\ Ok(A')) => ChangesCounted(A, A')
     /\ (IsCall /\ last'.op \in {"inc", "assign"} /\ Ok(A')
           /\ ~isContainer(A.nodes[last'.id].type)
           /\ A'.nodes[last'.id].type = A.nodes[last'.id].type
           /\ valueOf(A', last'.id) = valueOf(A, last'.id))
        => SameVersions(A, A')]_vars


\* the node p holds the node c as a child
Holds(T, p, c) == \E i \in 1..Len(T.nodes[p].props) : T.nodes[p].props[i].v = c

\* every node reachable from a node without a parent has that node as its
\* root and the node that holds it as its parent, and no node is reachable
\* from two nodes without a parent
SingleOwned(T) ==
  /\ \A R \in Tops(T) : \A x \in Reach(T, R) \ {R} :
        /\ T.nodes[x].root = R
        /\ T.nodes[x].parent \in Reach(T, R)
        /\ Holds(T, T.nodes[x].parent, x)
  /\ \A R1 \in Tops(T), R2 \in Tops(T) : R1 # R2 => Reach(T, R1) \cap Reach(T, R2) = {}

\* a call on the array out that concat returned, or on a node below it: no
\* node of the tree of Root has emitted an event or has changed, and unless
\* out is paused a call that changed a value has emitted events
Apart(T, U, out) ==
  /\ \A i \in 1..Len(U.log) : U.log[i].tome \notin Live(T)
  /\ \A x \in Live(T) : U.nodes[x] = T.nodes[x]
  /\ (~Paused(T, out) /\ valueOf(U, out) # valueOf(T, out)) => U.log # <<>>

\* C26: every node reachable from a node without a parent has it as root and
\* its holder as parent, and no node is reachable from two trees, concat
\* included; a mutation or a pause of the array concat returned emits no
\* event on the tree of the source array, records nothing in it and does not
\* depend on whether that tree is paused.
SingleOwnership ==
  [][/\ SingleOwned(A')
     /\ \A out \in Results(A) :
          (IsCall /\ last'.id \in Reach(A, out)
             /\ last'.op \in {"push", "pop", "inc", "pause", "resume"})
          => Apart(A, A', out)]_vars

\* the nodes reachable from Root alone
RootOwned == Results(A) = {} => SingleOwned(A)


\* C27: a node that has delivered its destroy event delivers no further
\* event in the call, be it a mutation of an unpaused tree or the flush of a
\* resume: in the events of a call no event of a node follows the destroy of
\* that node.
DestroyFinal ==
  \A i \in 1..Len(A.log) : \A j \in (i + 1)..Len(A.log) :
     A.log[i].ev = "destroy" => A.log[j].tome # A.log[i].tome


\* how many events are buffered in T
BufferedCount(T) ==
  Len(BufferedOf(T, "add")) + Len(BufferedOf(T, "del"))
    + Len(BufferedOf(T, "rename")) + Len(BufferedOf(T, "destroy"))

\* the positions of the structural and of the aggregate events of the call
StructuralAt(T) == {i \in 1..Len(T.log) : T.log[i].ev \in Structural}
AggregateAt(T) == {i \in 1..Len(T.log) : T.log[i].ev \in Aggregate}

\* the events of a resume of the paused tree T that has left U: the buffered
\* structural events, all of them before the first aggregate event; each
\* node emits signal, change and diff at most once, one after the other, and
\* after the three of each of its ancestors that emits
FlushedInOrder(T, U) ==
  /\ Cardinality(StructuralAt(U)) = BufferedCount(T)
  /\ \A i \in StructuralAt(U), j \in AggregateAt(U) : i < j
  /\ \A x \in Emitters(U) :
       /\ \A ev \in Aggregate : Emitted(U, x, ev) = 1
       /\ At(U, x, "change") = At(U, x, "signal") + 1
       /\ At(U, x, "diff") = At(U, x, "signal") + 2
       /\ \A y \in Ancestors(U, x) \cap Emitters(U) : At(U, y, "diff") < At(U, x, "signal")

\* C28: a resume of a paused tree delivers every buffered structural event
\* before any aggregate event, and then the aggregate events top-down: the
\* signal, change and diff of a node, in that order, before those of any of
\* its descendants, each node at most once.
FlushOrder ==
  [][(IsCall /\ last'.op = "resume" /\ Paused(A, Root) /\ Ok(A'))
       => FlushedInOrder(A, A')]_vars

\* a flush with structural events and the aggregate events of three levels
FlushOrderWitness ==
  /\ last.op = "resume"
  /\ last.paused
  /\ StructuralAt(A) # {}
  /\ \E x \in Emitters(A) : Cardinality(Ancestors(A, x) \cap Emitters(A)) = 2


\* C29: a node reachable from the root that has a pending record has a
\* parent with a pending record, and so has every ancestor up to the root;
\* and a notify walk from the root, which does not go below a node without
\* a pending record, leaves no reachable node with one.
UpwardPending ==
  /\ \A id \in Live(A) \ {Root} :
        A.nodes[id].diff # Undef => A.nodes[A.nodes[id].parent].diff # Undef
  /\ (Ok(A) /\ ((last.op = "resume" /\ last.paused) \/ (last.op = "notify" /\ last.id = Root)))
       => Pending(A) \cap Live(A) = {}

\* a paused tree with a pending record three levels down
UpwardPendingWitness ==
  /\ Paused(A, Root)
  /\ \E id \in Pending(A) \cap Live(A) : Cardinality(Ancestors(A, id)) = 2


\* C30: in every state in which the tree is not paused, right after a resume
\* in particular, no node reachable from the root has a pending record.
NoPendingUnpaused == ~Paused(A, Root) => Pending(A) \cap Live(A) = {}

\* a resume has ended a batch that left pending records three levels down
NoPendingUnpausedWitness ==
  /\ last.op = "resume"
  /\ last.paused
  /\ ~Paused(A, Root)
  /\ \E x \in Emitters(A) \cap Live(A) : Cardinality(Ancestors(A, x)) = 2


RECURSIVE OnceEach(_, _, _)
\* the entries applied one at a time, each as a record of its own
OnceEach(T, id, entries) ==
  IF ~Ok(T) \/ entries = <<>> THEN T
  ELSE OnceEach(merge(T, id, Obj(<<Head(entries)>>)), id, Tail(entries))

\* U is T after a merge that has applied every entry of the record d once
AppliedOnce(T, U, id, d) ==
  LET R == OnceEach(T, id, Entries(T.heap, d))
  IN Ok(R) => /\ Ok(U)
              /\ valueOf(U, Root) = valueOf(R, Root)

\* C31: merge applies every top-level entry of a record once: a merge of a
\* record with several entries leaves the values of the tree as the merges of
\* its entries, one record each and in their order, leave them; a replay of
\* {_a: {inc: 1}, _b: {_0: {inc: 1}}} adds 1 to a and 1 to b[0].
MergeOnce ==
  [][\A type \in {"object", "array", "number"} :
       \A d \in ReplayRecords(type) \cup Records :
         (/\ IsCall
          /\ last'.op = "merge"
          /\ A.nodes[last'.id].type = type
          /\ A' = merge(Begin(A), last'.id, d))
         => AppliedOnce(Begin(A), A', last'.id, d)]_vars


\* a consume that has returned has ended the pause it found or made, with
\* nothing left buffered or pending
ConsumeReturned == (last.op = "consume" /\ Ok(A)) => Drained(A)

\* a list-form rename of an object on a paused tree leaves the tree paused
\* and delivers no event
RenameListNested ==
  (last.op = "renameList" /\ last.paused) => (Paused(A, Root) /\ A.log = <<>>)

\* C32: consume always ends with the tree not paused and nothing buffered or
\* pending, also when the tree was paused before the call; a list-form rename
\* of an object on a paused tree leaves it paused and delivers nothing.
NestedBatching ==
  /\ last.op = "consume" => Drained(A)
  /\ RenameListNested

\* a consume on a paused tree has returned and delivered the events of the
\* outer batch
ConsumeNestedWitness ==
  /\ last.op = "consume"
  /\ last.paused
  /\ Ok(A)
  /\ Emitters(A) # {}

\* a list-form rename has returned on a paused tree
RenameListNestedWitness ==
  /\ last.op = "renameList"
  /\ last.paused
  /\ Ok(A)
  /\ A.nodes[Root].buffer.q # <<>>

====
